---------------------------- MODULE Spec2Model ----------------------------
(***************************************************************************)
(* A model of libprocu-galaxy (src/libprocu-galaxy/src/lib/                *)
(* libprocu-galaxy.hpp): the procedural galaxy generator ProcUGalaxy, its  *)
(* star, planet and atmosphere models and the catalog it keeps.            *)
(*                                                                         *)
(* Numbers.  The generator computes in IEEE single precision.  A float is  *)
(* modelled as a pair <<m, e>> standing for m * 2^e with a 24 bit signed   *)
(* mantissa, the exponent range of binary32 (gradual underflow to zero,    *)
(* overflow to infinity) and NaN.  Results are rounded toward zero, so     *)
(* they differ from the hardware's by at most one unit in the last place.  *)
(* sqrt, exp, log and pow belong to libm; they are computed here by Newton *)
(* iteration and by series to single precision.                            *)
(***************************************************************************)
EXTENDS Integers, Sequences, FiniteSets, TLC

-----------------------------------------------------------------------------
(* binary32 arithmetic *)

Abs(n) == IF n < 0 THEN -n ELSE n

Sgn(n) == IF n < 0 THEN -1 ELSE 1

Min(a, b) == IF a < b THEN a ELSE b

Max(a, b) == IF a > b THEN a ELSE b

\* number of significant bits of n >= 0, four bits a step
RECURSIVE BitLen(_)
BitLen(n) ==
    IF n >= 16 THEN 4 + BitLen(n \div 16)
    ELSE IF n >= 4 THEN (IF n >= 8 THEN 4 ELSE 3)
    ELSE IF n >= 2 THEN 2
    ELSE n

\* smallest exponent of a binary32 mantissa of 24 bits (2^-149 is the least
\* subnormal) and the largest ((2^24 - 1) * 2^104 is FLT_MAX)
MinE == -149

MaxE == 104

FZero == <<0, 0>>

FNaN == <<0, 1>>

FInf == <<1, MaxE + 1>>

FNegInf == <<-1, MaxE + 1>>

IsNaN(x) == x = FNaN

IsInf(x) == x = FInf \/ x = FNegInf

IsZero(x) == x = FZero

FSign(x) == IF x[1] < 0 THEN -1 ELSE 1

SignedInf(s) == IF s < 0 THEN FNegInf ELSE FInf

\* the element of a singleton: Only({e(v) : v \in {d}}) is e for v = d
Only(S) == CHOOSE v \in S : TRUE

\* the magnitude a shifted right by sh bits, left when sh < 0
Shift(a, sh) ==
    IF sh >= 31 THEN 0
    ELSE IF sh >= 0 THEN a \div (2 ^ sh)
    ELSE a * (2 ^ (-sh))

\* m * 2^e brought to a 24 bit mantissa (fewer bits at the exponent MinE):
\* the magnitude of m is placed at the exponent et by a shift of et - e bits
\* and packed with the sign
Norm(m, e) ==
    IF m = 0 THEN FZero
    ELSE Only({IF et > MaxE THEN SignedInf(m)
               ELSE IF Shift(Abs(m), et - e) = 0 THEN FZero
               ELSE <<Sgn(m) * Shift(Abs(m), et - e), et>> :
               et \in {Max(e + BitLen(Abs(m)) - 24, MinE)}})

FromInt(n) == Norm(n, 0)

FNeg(x) == IF IsNaN(x) THEN FNaN ELSE IF IsZero(x) THEN FZero ELSE <<-x[1], x[2]>>

FAbs(x) == IF x[1] < 0 THEN FNeg(x) ELSE x

\* the sum of two finite non-zero floats, a the one with the larger exponent:
\* a is shifted left by min(d, 6) bits of the difference d of the exponents,
\* b right by the other bits
FAdd(x, y) ==
    IF IsNaN(x) \/ IsNaN(y) THEN FNaN
    ELSE IF IsInf(x) /\ IsInf(y) THEN (IF x = y THEN x ELSE FNaN)
    ELSE IF IsInf(x) THEN x
    ELSE IF IsInf(y) THEN y
    ELSE IF IsZero(x) THEN y
    ELSE IF IsZero(y) THEN x
    ELSE Only({Norm(a[1] * (2 ^ Min(d, 6))
                       + Sgn(b[1]) * Shift(Abs(b[1]), d - Min(d, 6)),
                    a[2] - Min(d, 6)) :
               a \in {IF x[2] >= y[2] THEN x ELSE y},
               b \in {IF x[2] >= y[2] THEN y ELSE x},
               d \in {Abs(x[2] - y[2])}})

FSub(x, y) == FAdd(x, FNeg(y))

\* the mantissa of a product is floor(a * b / 2^23) for 0 <= a, b < 2^24,
\* from the halves of 12 bits of a and of b
FMul(x, y) ==
    IF IsNaN(x) \/ IsNaN(y) THEN FNaN
    ELSE IF IsInf(x) \/ IsInf(y)
         THEN (IF IsZero(x) \/ IsZero(y) THEN FNaN
               ELSE SignedInf(FSign(x) * FSign(y)))
    ELSE IF IsZero(x) \/ IsZero(y) THEN FZero
    ELSE Norm(FSign(x) * FSign(y)
                 * Only({2 * a1 * b1
                            + ((a1 * b0 + a0 * b1 + ((a0 * b0) \div 4096)) \div 2048) :
                         a1 \in {Abs(x[1]) \div 4096}, a0 \in {Abs(x[1]) % 4096},
                         b1 \in {Abs(y[1]) \div 4096}, b0 \in {Abs(y[1]) % 4096}}),
              x[2] + y[2] + 23)

\* the mantissa of a finite non-zero float shifted to the full 24 bits by k
\* bits (the exponent may then lie below MinE)
Full(x) == Only({<<x[1] * (2 ^ k), x[2] - k>> : k \in {24 - BitLen(Abs(x[1]))}})

\* k more steps of six bits of a quotient by b, from the quotient q and the
\* remainder r so far
RECURSIVE Quot(_, _, _, _)
Quot(q, r, b, k) ==
    IF k = 0 THEN q
    ELSE Quot(q * 64 + ((r * 64) \div b), (r * 64) % b, b, k - 1)

\* the mantissa of a quotient is floor(a * 2^24 / b) for 0 < a, b < 2^24
FDiv(x, y) ==
    IF IsNaN(x) \/ IsNaN(y) THEN FNaN
    ELSE IF IsInf(x)
         THEN (IF IsInf(y) THEN FNaN ELSE SignedInf(FSign(x) * FSign(y)))
    ELSE IF IsInf(y) THEN FZero
    ELSE IF IsZero(y) THEN (IF IsZero(x) THEN FNaN ELSE SignedInf(FSign(x)))
    ELSE IF IsZero(x) THEN FZero
    ELSE Only({Norm(FSign(x) * FSign(y) * Quot(a \div b, a % b, b, 4),
                    fx[2] - fy[2] - 24) :
               fx \in {Full(x)}, fy \in {Full(y)},
               a \in {Abs(Full(x)[1])}, b \in {Abs(Full(y)[1])}})

\* comparisons; every comparison with NaN is false
FLt(x, y) ==
    /\ ~IsNaN(x)
    /\ ~IsNaN(y)
    /\ x # y
    /\ IF IsInf(x) \/ IsInf(y)
       THEN (x = FNegInf \/ y = FInf)
       ELSE FSub(x, y)[1] < 0

FGt(x, y) == FLt(y, x)

FEq(x, y) == ~IsNaN(x) /\ ~IsNaN(y) /\ x = y

FLe(x, y) == FLt(x, y) \/ FEq(x, y)

FGe(x, y) == FLe(y, x)

\* std::min(a, b) is (b < a) ? b : a and std::max(a, b) is (a < b) ? b : a
FMin(a, b) == IF FLt(b, a) THEN b ELSE a

FMax(a, b) == IF FLt(a, b) THEN b ELSE a

\* the C++ conversion (int)x: the fraction is dropped
FToInt(x) ==
    IF x[2] >= 0 THEN x[1] * (2 ^ Min(x[2], 7))
    ELSE IF -x[2] >= 31 THEN 0
    ELSE Sgn(x[1]) * (Abs(x[1]) \div (2 ^ (-x[2])))

\* the decimal literals of the source: n * 10^-k and n * 10^k
RECURSIVE Pow10(_)
Pow10(k) ==
    IF k <= 9 THEN FromInt(10 ^ k)
    ELSE FMul(Pow10(9 * ((k - 1) \div 9)), FromInt(10 ^ (k - 9 * ((k - 1) \div 9))))

Dec(n, k) == FDiv(FromInt(n), Pow10(k))

\* The tables of the source are kept as their decimal literals, <<n, k>> for
\* n * 10^-k; Lit is the float a literal denotes.
Lit(d) == Dec(d[1], d[2])

Sci(n, k) == FMul(FromInt(n), Pow10(k))

FOne == FromInt(1)

FTwo == FromInt(2)

FHalf == Norm(1, -1)

-----------------------------------------------------------------------------
(* libm: sqrt, exp, log, pow *)

\* floor of the square root of n >= 0 (Newton's iteration on integers)
RECURSIVE ISqrtFrom(_, _)
ISqrtFrom(n, g) ==
    LET h == (g + n \div g) \div 2
    IN  IF h >= g THEN g ELSE ISqrtFrom(n, h)

ISqrt(n) == IF n < 2 THEN n ELSE ISqrtFrom(n, n \div 2)

RECURSIVE SqrtNewton(_, _, _)
SqrtNewton(x, g, k) ==
    IF k = 0 THEN g
    ELSE SqrtNewton(x, FMul(FHalf, FAdd(g, FDiv(x, g))), k - 1)

\* the first guess is the integer root of the full mantissa f, with six more
\* bits and one more when the exponent is odd
FSqrt(x) ==
    IF IsNaN(x) \/ x[1] < 0 THEN FNaN
    ELSE IF IsZero(x) \/ IsInf(x) THEN x
    ELSE Only({SqrtNewton(x, Norm(ISqrt(f[1] * (2 ^ (6 - od))),
                                  (f[2] - 6 + od) \div 2), 2) :
               f \in {Full(x)}, od \in {Full(x)[2] % 2}})

M_PI == Dec(314159265, 8)

Ln2 == Dec(693147181, 9)

\* sum of the series 1 + r/n * (1 + r/(n+1) * (...)) up to the term k
RECURSIVE ExpSeries(_, _, _)
ExpSeries(r, n, k) ==
    IF n > k THEN FOne
    ELSE FAdd(FOne, FMul(FDiv(r, FromInt(n)), ExpSeries(r, n + 1, k)))

\* exp(x) = 2^k * exp(r) with k = floor(x / ln 2) and r = x - k * ln 2
FExp(x) ==
    IF IsNaN(x) THEN FNaN
    ELSE IF x = FInf THEN FInf
    ELSE IF x = FNegInf THEN FZero
    ELSE IF FGt(x, FromInt(200)) THEN FInf
    ELSE IF FLt(x, FromInt(-200)) THEN FZero
    ELSE Only({Only({Norm(s[1], s[2] + k) :
                     s \in {ExpSeries(FSub(x, FMul(FromInt(k), Ln2)), 1, 11)}}) :
               k \in {Only({IF FLt(q, FromInt(FToInt(q))) THEN FToInt(q) - 1
                            ELSE FToInt(q) :
                            q \in {FDiv(x, Ln2)}})}})

\* 2 * (t + t^3/3 + t^5/5 + ...) up to the power k, as t * (2/n + t^2 * (...))
RECURSIVE LogSeries(_, _, _)
LogSeries(t2, n, k) ==
    IF n > k THEN FZero
    ELSE FAdd(FDiv(FTwo, FromInt(n)), FMul(t2, LogSeries(t2, n + 2, k)))

\* log(x) = ex * ln 2 + log(m) for x = m * 2^ex with m in [sqrt(1/2),
\* sqrt(2)), and log(m) by the series in t = (m - 1) / (m + 1)
FLog(x) ==
    IF IsNaN(x) \/ x[1] < 0 THEN FNaN
    ELSE IF IsZero(x) THEN FNegInf
    ELSE IF IsInf(x) THEN FInf
    ELSE Only({Only({FAdd(FMul(FromInt(ex), Ln2),
                          FMul(t, LogSeries(FMul(t, t), 1, 11))) :
                     t \in {FDiv(FSub(m, FOne), FAdd(m, FOne))}}) :
               ex \in {Only({f[2] + (IF f[1] > 11863283 THEN 24 ELSE 23) :
                             f \in {Full(x)}})},
               m  \in {Only({<<f[1], IF f[1] > 11863283 THEN -24 ELSE -23>> :
                             f \in {Full(x)}})}})

\* pow(x, n) for an integer n >= 0
RECURSIVE FPowInt(_, _)
FPowInt(x, n) == IF n = 0 THEN FOne ELSE FMul(x, FPowInt(x, n - 1))

\* pow(x, y) for x >= 0
FPow(x, y) ==
    IF IsNaN(x) \/ IsNaN(y) THEN FNaN
    ELSE IF IsZero(y) THEN FOne
    ELSE IF IsZero(x) THEN (IF y[1] > 0 THEN FZero ELSE FInf)
    ELSE IF x[1] < 0 THEN FNaN
    ELSE FExp(FMul(y, FLog(x)))

-----------------------------------------------------------------------------
(* the random generator pcg32 (an external library): a stream is a state,  *)
(* seeding fixes the state, every draw yields a value and the next state.  *)
(* The model's generator has RngMod states, so that a uniform float is one *)
(* of the RngMod values v / RngMod in [0, 1).                              *)

RngMod == 61

RngStates == 0 .. RngMod - 1

\* a seed is an unsigned integer hi * 10^9 + lo, kept as <<hi, lo>>
SeedBase == 10 ^ 9

SeedAdd(seed, dhi, dlo) ==
    LET lo == seed[2] + dlo
    IN  <<seed[1] + dhi + (lo \div SeedBase), lo % SeedBase>>

\* pcg32::seed(seed) and the constructor pcg32(seed)
RngSeed(seed) == ((seed[1] % RngMod) * 31 + seed[2]) % RngMod

\* the state after one draw
RngStep(s) == (s * 17 + 7) % RngMod

\* pcg32::nextFloat() and nextDouble(): uniform in [0, 1)
NextFloat(s) == FDiv(FromInt(s), FromInt(RngMod))

\* pcg32::nextUInt(bound): uniform in 0 .. bound - 1
NextUInt(s, bound) == s % bound

\* C arrays and std::list are indexed from 0
Tab(seq) == [i \in 0 .. Len(seq) - 1 |-> seq[i + 1]]

-----------------------------------------------------------------------------
(* constants of the cosmic universe *)

G == Dec(667384, 16)

au2km == Sci(149597871, 0)

m2au == Dec(668458712, 20)

Rsol == FromInt(696342)

Rearth == FromInt(6371)

Mearth == Sci(5972, 21)

Lsol == Sci(384, 24)

Lsigma == Dec(567, 10)

yearEarth == Dec(315581495, 1)

-----------------------------------------------------------------------------
(* atmosphere *)

componentOrder ==
    Tab(<<"CO2", "H2", "N2", "O2", "He", "Ar", "CH4", "Ne", "Kr", "Xe">>)

Gases == {componentOrder[i] : i \in DOMAIN componentOrder}

elementProb ==
    [gas \in Gases |->
        CASE gas = "CO2" -> <<965, 3>>
          [] gas = "H2"  -> <<963, 3>>
          [] gas = "N2"  -> <<780, 3>>
          [] gas = "O2"  -> <<210, 3>>
          [] gas = "He"  -> <<102, 3>>
          [] gas = "Ar"  -> <<16, 3>>
          [] gas = "CH4" -> <<15, 3>>
          [] gas = "Ne"  -> <<1, 4>>
          [] gas = "Kr"  -> <<1, 4>>
          [] gas = "Xe"  -> <<1, 4>>]

\* a std::map<std::string, float>: a function on the keys it holds
EmptyMap == [gas \in {} |-> FZero]

MapPut(map, key, val) == [k \in DOMAIN map \cup {key} |-> IF k = key THEN val ELSE map[k]]

\* the sum of the values of a std::map<std::string, float>
RECURSIVE MapSum(_)
MapSum(map) ==
    IF DOMAIN map = {} THEN FZero
    ELSE LET k == CHOOSE g \in DOMAIN map : TRUE
         IN  FAdd(map[k], MapSum([g \in DOMAIN map \ {k} |-> map[g]]))

UniverseAtmosphere == [radius |-> FZero, pressure |-> FZero, composition |-> EmptyMap]

\* UniverseAtmosphere::exists()
exists(atmosphere) == FGt(atmosphere.radius, FZero)

\* the element range of a run of createComposition: <<minCnt, maxCnt>>
compositionRange(run) ==
    IF run = 0 THEN <<0, 2>>
    ELSE IF run = 1 THEN <<2, 4>>
    ELSE <<4, Cardinality(Gases) - 1>>

\* composition[comp] after one run has drawn partToAdd for comp
compositionStore(composition, comp, partToAdd) ==
    IF comp \in DOMAIN composition
    THEN MapPut(composition, comp, partToAdd)
    ELSE MapPut(composition, comp, FAdd(FZero, partToAdd))

\* a pass that draws and adds no share
compositionRunIdle(c) == [c EXCEPT !.rnd = RngStep(RngStep(c.rnd))]

\* one pass of the loop of createComposition, from the state
\* [composition, rnd, part, run] of its local variables
compositionRun(c) ==
    Only({Only({Only({
        [composition |-> compositionStore(c.composition, comp, partToAdd),
         rnd         |-> RngStep(RngStep(c.rnd)),
         part        |-> FAdd(c.part, partToAdd),
         run         |-> c.run + 1,
         comp        |-> comp,
         partToAdd   |-> partToAdd] :
        \* partToAdd = min(variationPart, 1 - part)
        partToAdd \in {FMin(FAdd(FMul(maxPart, Dec(6, 1)),
                                 FMul(FMul(NextFloat(RngStep(c.rnd)), maxPart),
                                      Dec(4, 1))),
                            FSub(FOne, c.part))}}) :
        maxPart \in {Lit(elementProb[comp])}}) :
        \* which = minCnt + rnd.nextUInt(maxCnt - minCnt)
        comp \in {componentOrder[compositionRange(c.run)[1]
                      + NextUInt(c.rnd, compositionRange(c.run)[2]
                                           - compositionRange(c.run)[1])]}})

compositionStart(composition, rnd) ==
    [composition |-> composition, rnd |-> rnd, part |-> FZero, run |-> 0,
     comp |-> "", partToAdd |-> FZero]

\* createComposition(composition, rnd): the loop from the start to part >= 1;
\* the field composition is the map it leaves
RECURSIVE compositionLoop(_)
compositionLoop(c) ==
    IF FLt(c.part, FOne) THEN compositionLoop(compositionRun(c)) ELSE c

-----------------------------------------------------------------------------
(* planet *)

\* a table of the periodic table of planets: 3 temperature zones of 6 columns
Rows3(row) == Tab(row \o row \o row)

\* the ranges of mass, radius and pressure of the periodic table of planets
planetTypeRange ==
    [Mearth_min            |-> Rows3(<<<<0, 0>>, <<1, 1>>, <<5, 1>>, <<2, 0>>, <<10, 0>>,
                               <<50, 0>>>>),
     Mearth_max            |-> Rows3(<<<<1, 1>>, <<5, 1>>, <<2, 0>>, <<10, 0>>, <<50, 0>>,
                               <<1000, 0>>>>),
     Rearth_min            |-> Rows3(<<<<3, 2>>, <<4, 1>>, <<8, 1>>, <<125, 2>>, <<26, 1>>,
                               <<6, 0>>>>),
     Rearth_max            |-> Rows3(<<<<4, 1>>, <<8, 1>>, <<125, 2>>, <<26, 1>>, <<6, 0>>,
                               <<1000, 0>>>>),
     atmospherePressureMin |-> Rows3(<<<<0, 0>>, <<1, 1>>, <<5, 1>>, <<5, 1>>, <<10, 0>>,
                               <<100, 0>>>>),
     atmospherePressureMax |-> Rows3(<<<<1, 3>>, <<5, 1>>, <<2, 0>>, <<3, 0>>, <<1000, 0>>,
                               <<2000, 0>>>>)]


\* the table with the probabilities of the fifth column, the Neptunians, at
\* one half
atmosphereProbabilityMaxHalved ==
    Tab(<<<<0, 0>>, <<1, 3>>, <<1, 3>>, <<1, 3>>, <<5, 1>>, <<1, 0>>,
          <<0, 0>>, <<2, 2>>, <<5, 2>>, <<1, 2>>, <<5, 1>>, <<1, 0>>,
          <<0, 0>>, <<0, 0>>, <<0, 0>>, <<0, 0>>, <<5, 1>>, <<1, 0>>>>)

atmosphereProbabilityMax ==
    Tab(<<<<0, 0>>, <<1, 3>>, <<1, 3>>, <<1, 3>>, <<1, 0>>, <<1, 0>>,
          <<0, 0>>, <<2, 2>>, <<5, 2>>, <<1, 2>>, <<1, 0>>, <<1, 0>>,
          <<0, 0>>, <<0, 0>>, <<0, 0>>, <<0, 0>>, <<1, 0>>, <<1, 0>>>>)


planetTemperature(Lstar, distAu) ==
    LET Aabs_Arad == Dec(25, 2)
        albedo    == FZero
        eta       == FOne
        L         == FMul(Lstar, Lsol)
        dist2     == FPowInt(FMul(FMul(distAu, au2km), Sci(1, 3)), 2)
        area      == FMul(FMul(FMul(FMul(FromInt(4), M_PI), Lsigma), eta), dist2)
    IN  FPow(FMul(Aabs_Arad, FDiv(FMul(L, FSub(FOne, albedo)), area)), Dec(25, 2))

\* the mass category: the last band i in 0..5 that holds the mass strictly
\* inside, 0 when no band does
RECURSIVE massIndexFrom(_, _, _)
massIndexFrom(massEarth, i, iMassIdx) ==
    IF i >= 6 THEN iMassIdx
    ELSE massIndexFrom(massEarth, i + 1,
             IF FGt(massEarth, Lit(planetTypeRange.Mearth_min[i])) /\ FLt(massEarth, Lit(planetTypeRange.Mearth_max[i]))
             THEN i ELSE iMassIdx)

getPlanetTypeIndex(planet, hzMinAu, hzMaxAu) ==
    LET iZoneIdx == IF FGt(planet.starDistance, hzMaxAu) THEN 12
                    ELSE IF FLt(planet.starDistance, hzMinAu) THEN 0
                    ELSE 6
        iMassIdx == massIndexFrom(FDiv(planet.mass, Mearth), 0, 0)
    IN  iZoneIdx + iMassIdx

getPeriodicTypeColumn(typeIndex) == IF typeIndex > -1 THEN typeIndex % 6 ELSE -1

\* createAtmosphere(typeIndex, planetRadius, rnd): the atmosphere, the state
\* rnd is left in (it is passed by reference), the sample atmProb and the
\* number of samples drawn (createComposition draws from a copy of rnd)
createAtmosphereRun(typeIndex, planetRadius, rnd) ==
    IF FGt(NextFloat(rnd), Lit(atmosphereProbabilityMax[typeIndex]))
    THEN [atmosphere |-> UniverseAtmosphere, rnd |-> RngStep(rnd),
          atmProb |-> NextFloat(rnd), draws |-> 1]
    ELSE Only({Only({
        [atmosphere |->
            [radius      |-> IF terran
                             THEN FMul(planetRadius,
                                       FAdd(Dec(101, 2),
                                            FMul(NextFloat(RngStep(rnd)), Dec(9, 2))))
                             ELSE planetRadius,
             pressure    |-> FAdd(Lit(planetTypeRange.atmospherePressureMin[typeIndex]),
                                  FMul(NextFloat(rnd2),
                                       FSub(Lit(planetTypeRange.atmospherePressureMax[typeIndex]),
                                            Lit(planetTypeRange.atmospherePressureMin[typeIndex])))),
             composition |-> mix.composition],
         rnd     |-> RngStep(rnd2),
         atmProb |-> NextFloat(rnd),
         draws   |-> (IF terran THEN 3 ELSE 2) + 2 * mix.run] :
        mix \in {compositionLoop(compositionStart(EmptyMap, RngStep(rnd2)))}}) :
        terran \in {getPeriodicTypeColumn(typeIndex) <= 3},
        \* the state of rnd when the pressure is drawn
        rnd2   \in {IF getPeriodicTypeColumn(typeIndex) <= 3
                    THEN RngStep(RngStep(rnd)) ELSE RngStep(rnd)}})

-----------------------------------------------------------------------------
(* math utilities *)

normalDistribution(x, mu, sigma) ==
    FMul(FDiv(FOne, FMul(sigma, FSqrt(FMul(FTwo, M_PI)))),
         FExp(FDiv(FNeg(FPowInt(FSub(x, mu), 2)),
                   FMul(FTwo, FPowInt(sigma, 2)))))

inverseExpDistribution(x, skew) == FExp(FNeg(FPow(x, skew)))

\* getRndCdfIdx(rn, cdf): the first index whose bound is >= rn, the last
\* index when there is none
RECURSIVE cdfIdxFrom(_, _, _)
cdfIdxFrom(rn, cdf, idx) ==
    IF idx + 1 >= Cardinality(DOMAIN cdf) \/ FLe(rn, Lit(cdf[idx])) THEN idx
    ELSE cdfIdxFrom(rn, cdf, idx + 1)

\* the index one past the end when no bound is >= rn
getRndCdfIdxPastEnd(rn, cdf) ==
    Only({IF idx + 1 = Cardinality(DOMAIN cdf) /\ ~FLe(rn, Lit(cdf[idx]))
          THEN idx + 1 ELSE idx :
          idx \in {cdfIdxFrom(rn, cdf, 0)}})

getRndCdfIdx(rn, cdf) == cdfIdxFrom(rn, cdf, 0)

-----------------------------------------------------------------------------
(* star *)

\* the classes and the designation of the 24 star types
starTypeName ==
    [spectralClass   |-> Tab(<<"B", "A", "F", "G", "K", "M", "G", "K", "M", "O", "B",
                         "A", "F", "G", "K", "M", "L", "T", "Y", "D", "R", "N", "S",
                         "W">>),
     luminosityClass |-> Tab(<<"I", "I", "I", "I", "I", "I", "III", "III", "III", "V",
                         "V", "V", "V", "V", "V", "V", "V", "V", "", "", "", "", "",
                         "">>),
     starDesignation |-> Tab(<<"blue supergiant", "supergiant", "supergiant",
                         "supergiant", "red supergiant", "red supergiant",
                         "regular giant", "regular giant", "regular giant",
                         "main-sequence", "main-sequence", "main-sequence",
                         "main-sequence", "main-sequence", "orange dwarf",
                         "red dwarf", "red dwarf", "methane dwarf", "brown dwarf",
                         "white dwarf", "carbon-based", "carbon-based",
                         "zirconium-monoxide-based star", "dying supergiant">>)]


starTypeProbability ==
    Tab(<<<<15152, 6>>, <<30303, 6>>, <<45455, 6>>,
          <<60606, 6>>, <<75758, 6>>, <<90909, 6>>,
          <<106061, 6>>, <<121212, 6>>, <<136364, 6>>,
          <<166667, 6>>, <<242424, 6>>, <<378788, 6>>,
          <<530303, 6>>, <<681818, 6>>, <<833333, 6>>,
          <<924242, 6>>, <<969697, 6>>, <<984848, 6>>,
          <<992424, 6>>, <<993939, 6>>, <<995454, 6>>,
          <<99697, 5>>, <<998485, 6>>, <<1, 0>>>>)

\* the ranges of radius, mass and temperature of the 24 star types
starTypeRange ==
    [minRadius      |-> Tab(<<<<30, 0>>, <<30, 0>>, <<30, 0>>, <<30, 0>>, <<25, 0>>,
                        <<11, 0>>, <<20, 0>>, <<15, 0>>, <<10, 0>>, <<66, 1>>,
                        <<18, 1>>, <<14, 1>>, <<115, 2>>, <<96, 2>>, <<7, 1>>,
                        <<8, 2>>, <<8, 2>>, <<8, 3>>, <<8, 2>>, <<8, 2>>, <<1, 2>>,
                        <<1, 2>>, <<1, 2>>, <<1, 2>>>>),
     maxRadius      |-> Tab(<<<<2000, 0>>, <<1900, 0>>, <<1800, 0>>, <<1700, 0>>,
                        <<1600, 0>>, <<1, 0>>, <<200, 0>>, <<50, 0>>, <<30, 0>>,
                        <<30, 0>>, <<66, 1>>, <<18, 1>>, <<14, 1>>, <<115, 2>>,
                        <<96, 2>>, <<62, 2>>, <<15, 2>>, <<1, 1>>, <<14, 2>>,
                        <<1, 1>>, <<1, 1>>, <<1, 1>>, <<1, 1>>, <<1, 1>>>>),
     minMass        |-> Tab(<<<<10, 0>>, <<5, 0>>, <<4, 0>>, <<3, 0>>, <<2, 0>>,
                        <<7, 0>>, <<30, 0>>, <<20, 0>>, <<3, 0>>, <<16, 0>>,
                        <<21, 1>>, <<14, 1>>, <<104, 2>>, <<8, 1>>, <<8, 2>>,
                        <<75, 3>>, <<5, 3>>, <<5, 3>>, <<5, 4>>, <<5, 3>>, <<5, 3>>,
                        <<5, 3>>, <<5, 3>>, <<5, 3>>>>),
     maxMass        |-> Tab(<<<<100, 0>>, <<30, 0>>, <<20, 0>>, <<11, 0>>, <<40, 0>>,
                        <<40, 0>>, <<100, 0>>, <<70, 0>>, <<15, 0>>, <<200, 0>>,
                        <<24000, 0>>, <<21, 1>>, <<14, 1>>, <<104, 2>>, <<45, 2>>,
                        <<6, 1>>, <<8, 2>>, <<8, 3>>, <<2, 2>>, <<8, 3>>, <<8, 2>>,
                        <<8, 2>>, <<8, 2>>, <<8, 2>>>>),
     minTemperature |-> Tab(<<<<9700, 0>>, <<8300, 0>>, <<6150, 0>>, <<5050, 0>>,
                        <<3750, 0>>, <<2950, 0>>, <<4870, 0>>, <<3780, 0>>,
                        <<2800, 0>>, <<3780, 0>>, <<11400, 0>>, <<7920, 0>>,
                        <<6300, 0>>, <<5440, 0>>, <<4000, 0>>, <<2600, 0>>,
                        <<1500, 0>>, <<800, 0>>, <<500, 0>>, <<500, 0>>, <<500, 0>>,
                        <<500, 0>>, <<500, 0>>, <<500, 0>>>>),
     maxTemperature |-> Tab(<<<<21000, 0>>, <<9400, 0>>, <<7500, 0>>, <<5800, 0>>,
                        <<4900, 0>>, <<3690, 0>>, <<5010, 0>>, <<4720, 0>>,
                        <<3660, 0>>, <<54000, 0>>, <<29200, 0>>, <<9600, 0>>,
                        <<7350, 0>>, <<6050, 0>>, <<5240, 0>>, <<3750, 0>>,
                        <<2600, 0>>, <<1400, 0>>, <<1000, 0>>, <<800, 0>>,
                        <<800, 0>>, <<800, 0>>, <<800, 0>>, <<800, 0>>>>)]


starSystemMultiProbability ==
    Tab(<<<<8, 1>>, <<9, 1>>, <<95, 2>>, <<975, 3>>,
          <<988, 3>>, <<996, 3>>, <<1, 0>>>>)


getStarMassDensity(starMass, frostLimitAu, posAu) ==
    IF FLt(posAu, frostLimitAu)
    THEN FMul(FMul(Sci(42, 23), starMass),
              normalDistribution(posAu, FDiv(frostLimitAu, FTwo),
                                 FDiv(frostLimitAu, FromInt(16))))
    ELSE FMul(FMul(Sci(80, 25), starMass), inverseExpDistribution(posAu, FHalf))

calcFrostLimit(lumStar) ==
    FMul(FSqrt(FDiv(FMul(FMul(Dec(25, 2), lumStar), Lsol),
                    FMul(FMul(FMul(Sci(50625, 4), FromInt(4)), M_PI), Lsigma))),
         m2au)

\* the values the initialiser lists of habitableZoneComplete name for the
\* limits 1..7
habitableZoneInit ==
    [seffsunInit |-> <<<<17763, 4>>, <<10385, 4>>, <<10146, 4>>, <<3507, 4>>,
                     <<3207, 4>>, <<2484, 4>>, <<5408, 4>>>>,
     aInit       |-> <<<<14335, 8>>, <<12456, 8>>, <<81884, 9>>, <<59578, 9>>,
                     <<54471, 9>>, <<42588, 9>>, <<44499, 9>>>>,
     bInit       |-> <<<<33954, 13>>, <<14612, 12>>, <<19394, 13>>, <<16707, 13>>,
                     <<15275, 13>>, <<11963, 13>>, <<14065, 14>>>>,
     cInit       |-> <<<<-76364, 16>>, <<-76345, 16>>, <<-43618, 16>>,
                     <<-30058, 16>>, <<-27481, 16>>, <<-21709, 16>>,
                     <<-2275, 15>>>>,
     dInit       |-> <<<<-1195, 18>>, <<-17511, 19>>, <<-6826, 19>>,
                     <<-51925, 20>>, <<-47474, 20>>, <<-38282, 20>>,
                     <<-33509, 20>>>>]


\* The arrays are declared as  float seffsun[8] = { seffsun[1] = 1.7763f, ... }:
\* seven initialisers that each also assign to an element of the array under
\* initialisation.  What the array holds afterwards depends on the build:
\*   "declared"  element i holds the value named for limit i
\*   "shifted"   element i holds the i-th initialiser, the value named for
\*               limit i + 1, and element 7 the last assignment (g++ 12)
\*   "zeroed"    as "shifted", element 7 zero-initialised afterwards
HzLayouts == {"declared", "shifted", "zeroed"}

hzCoefficient(init, layout, i) ==
    Lit(IF layout = "declared" THEN init[Max(i, 1)]
        ELSE IF i <= 6 THEN init[i + 1]
        ELSE IF layout = "shifted" THEN init[7]
        ELSE <<0, 0>>)

\* the stellar flux sEff[i] of habitableZoneComplete, floored at zero
hzFlux(layout, tEff, i) ==
    Only({FMax(FAdd(FAdd(FAdd(FAdd(hzCoefficient(habitableZoneInit.seffsunInit, layout, i),
                    FMul(hzCoefficient(habitableZoneInit.aInit, layout, i), tStar)),
                    FMul(hzCoefficient(habitableZoneInit.bInit, layout, i), FPowInt(tStar, 2))),
                    FMul(hzCoefficient(habitableZoneInit.cInit, layout, i), FPowInt(tStar, 3))),
                    FMul(hzCoefficient(habitableZoneInit.dInit, layout, i), FPowInt(tStar, 4))),
               FZero) :
          tStar \in {FSub(tEff, FromInt(5780))}})

\* the distance without the test for a zero flux
hzDistanceUnguarded(sEff, lumStar) == FSqrt(FDiv(lumStar, sEff))

\* the distance hzDistAu[i] for a flux
hzDistance(sEff, lumStar) ==
    IF FEq(sEff, FZero) THEN FZero ELSE FSqrt(FDiv(lumStar, sEff))

\* habitableZoneComplete(hzDistAu, tEff, lumStar): the array it writes
habitableZoneComplete(layout, tEff, lumStar) ==
    [i \in 0 .. 7 |->
        IF i = 0 THEN FZero ELSE hzDistance(hzFlux(layout, tEff, i), lumStar)]

calcLuminosity(mass) ==
    IF FGe(mass, FromInt(20)) THEN FMul(FromInt(3200), mass)
    ELSE IF FGe(mass, FTwo) /\ FLt(mass, FromInt(20))
         THEN FMul(Dec(15, 1), FPow(mass, Dec(35, 1)))
    ELSE IF FGe(mass, Dec(43, 2)) /\ FLt(mass, FTwo) THEN FPowInt(mass, 4)
    ELSE IF FLt(mass, Dec(43, 2)) THEN FMul(Dec(23, 2), FPow(mass, Dec(23, 1)))
    ELSE FZero

getStarColor(starTemperatureK) ==
    LET \* a colour channel: clamped to [0, 255] and converted to a byte
        colorByte(x) == FToInt(IF FLt(x, FZero) THEN FZero
                               ELSE IF FGt(x, FromInt(255)) THEN FromInt(255)
                               ELSE x)
    IN  Only({
        <<IF FLe(temperature, FromInt(66)) THEN 255
          ELSE colorByte(FMul(Dec(329698727, 6),
                   FPow(FSub(temperature, FromInt(60)), Dec(-1332047592, 10)))),
          IF FLe(temperature, FromInt(66))
          THEN colorByte(FSub(FMul(Dec(994708026, 7), FLog(temperature)),
                              Dec(1611195682, 7)))
          ELSE colorByte(FMul(Dec(288122170, 6),
                   FPow(FSub(temperature, FromInt(60)), Dec(-755148492, 10)))),
          IF FGe(temperature, FromInt(66)) THEN 255
          ELSE IF FLe(temperature, FromInt(19)) THEN 0
          ELSE colorByte(FSub(FMul(Dec(138517731, 6),
                                   FLog(FSub(temperature, FromInt(10)))),
                              Dec(305044793, 6)))>> :
        temperature \in {FDiv(starTemperatureK, FromInt(100))}})

genStarTemperatureSequence(idx, temperature) ==
    LET step == FDiv(FSub(Lit(starTypeRange.maxTemperature[idx]), Lit(starTypeRange.minTemperature[idx])), FromInt(10))
        mult == FDiv(FSub(Lit(starTypeRange.maxTemperature[idx]), temperature), step)
    IN  ToString(FToInt(mult))


\* the fields of UniverseStar as its declaration initialises them; seed,
\* hzDistAu and planetsCount have no initialiser
UniverseStar(seed, hzDistAu, planetsCount) ==
    [seed                |-> seed,
     typeIndex           |-> 0,
     spectralClass       |-> "",
     temperatureSequence |-> "",
     luminosityClass     |-> "",
     stellarType         |-> "",
     designation         |-> "",
     mass                |-> FZero,
     luminosity          |-> FZero,
     temperature         |-> FZero,
     radius              |-> FZero,
     color               |-> <<0, 0, 0>>,
     hzDistAu            |-> hzDistAu,
     frostLimitAu        |-> FZero,
     planets             |-> EmptyMap,
     planetsCount        |-> planetsCount,
     axialRotation       |-> FZero]

\* a value drawn uniformly between two table bounds: lo + sample * (hi - lo)
between(lo, hi, sample) == FAdd(lo, FMul(sample, FSub(hi, lo)))

\* the star ProcUGalaxy::genStar(starSeed) builds from the five samples it
\* draws from the member rng; sm[k] is the state of the stream its k-th draw
\* found
genStar(layout, starSeed, sm) ==
    Only({Only({Only({
            [seed                |-> starSeed,
             typeIndex           |-> idx,
             spectralClass       |-> starTypeName.spectralClass[idx],
             temperatureSequence |-> sequence,
             luminosityClass     |-> starTypeName.luminosityClass[idx],
             stellarType         |-> starTypeName.spectralClass[idx] \o sequence
                                        \o starTypeName.luminosityClass[idx],
             designation         |-> starTypeName.starDesignation[idx],
             mass                |-> mass,
             luminosity          |-> luminosity,
             temperature         |-> temperature,
             radius              |-> radius,
             color               |-> getStarColor(temperature),
             hzDistAu            |-> habitableZoneComplete(layout, temperature,
                                                           luminosity),
             frostLimitAu        |-> calcFrostLimit(luminosity),
             planets             |-> EmptyMap,
             planetsCount        |-> NextUInt(sm[5], 8),
             axialRotation       |-> FDiv(FMul(FMul(M_PI, radius), Rsol), mass)] :
        luminosity \in {calcLuminosity(mass)},
        sequence   \in {genStarTemperatureSequence(idx, temperature)}}) :
        mass        \in {between(Lit(starTypeRange.minMass[idx]), Lit(starTypeRange.maxMass[idx]),
                                 NextFloat(sm[2]))},
        radius      \in {between(Lit(starTypeRange.minRadius[idx]), Lit(starTypeRange.maxRadius[idx]),
                                 NextFloat(sm[3]))},
        temperature \in {between(Lit(starTypeRange.minTemperature[idx]), Lit(starTypeRange.maxTemperature[idx]),
                                 NextFloat(sm[4]))}}) :
        idx \in {getRndCdfIdx(NextFloat(sm[1]), starTypeProbability)}})

\* ProcUGalaxy::genStar(starSeed) on a stream in state rnd (the state
\* rng.seed(starSeed) leaves) that it alone advances: the star and the state
\* the member rng is left in
genStarRun(layout, starSeed, rnd) ==
    [star |-> genStar(layout, starSeed,
                      <<rnd, RngStep(rnd), RngStep(RngStep(rnd)),
                        RngStep(RngStep(RngStep(rnd))),
                        RngStep(RngStep(RngStep(RngStep(rnd))))>>),
     rnd  |-> RngStep(RngStep(RngStep(RngStep(RngStep(rnd)))))]

-----------------------------------------------------------------------------
(* habitability *)

gEarth == Dec(981, 2)

\* the maximal partial pressure of a gas
ppMaxGas ==
    [gas \in {"He", "Ne", "H2", "N2", "O2", "Ar", "Kr", "CO2", "Xe", "CH4"} |->
        CASE gas = "He"  -> <<2934, 0>>
          [] gas = "Ne"  -> <<66, 0>>
          [] gas = "H2"  -> <<165, 1>>
          [] gas = "N2"  -> <<594, 2>>
          [] gas = "O2"  -> <<16, 1>>
          [] gas = "Ar"  -> <<112, 2>>
          [] gas = "Kr"  -> <<12, 2>>
          [] gas = "CO2" -> <<15, 3>>
          [] gas = "Xe"  -> <<9, 3>>
          [] OTHER       -> <<1, 3>>]

\* atmosphereHabitability(composition, pressure): ppMaxGas[gas] is 0 for a
\* gas the table does not name (operator[] inserts it)
atmosphereHabitability(composition, pressure) ==
    IF \E gas \in DOMAIN composition :
          \/ FGt(FMul(composition[gas], pressure),
                 IF gas \in DOMAIN ppMaxGas THEN Lit(ppMaxGas[gas]) ELSE FZero)
          \/ gas = "O2" /\ FLt(FMul(composition[gas], pressure), Dec(16, 2))
          \/ "O2" \notin DOMAIN composition
    THEN FZero
    ELSE FOne

\* calcPlanetHabitability(planet): the planet with probTemp and probGrav set
calcPlanetHabitability(planet) ==
    Only({
        [planet EXCEPT
            !.probTemp = IF \/ FLt(planet.temperature, FromInt(223))
                            \/ FGt(planet.temperature, FromInt(323))
                         THEN FZero
                         ELSE FSub(FOne,
                                   FDiv(FAbs(FSub(FromInt(293), planet.temperature)),
                                        FromInt(70))),
            !.probGrav = IF FLt(grel, Dec(2, 1)) \/ FGt(grel, FromInt(3))
                         THEN FZero
                         ELSE FSub(FOne, FDiv(FAbs(FSub(FOne, grel)), FTwo))] :
        grel \in {IF ~FEq(planet.mass, FZero) /\ ~FEq(planet.radius, FZero)
                  THEN FDiv(FDiv(FMul(G, planet.mass),
                                 FPowInt(FMul(planet.radius, FromInt(1000)), 2)),
                            gEarth)
                  ELSE FZero}})

\* getPlanetHabitability(planet): the planet as calcPlanetHabitability leaves
\* it and the value returned; atmosphereHabitability is called with the
\* composition alone, its parameter pressure takes the default 1.0f
getPlanetHabitability(planet) ==
    Only({
        [planet |-> p,
         value  |-> IF ~p.isInHz THEN FZero
                    ELSE IF exists(p.atmosphere)
                    THEN FMul(FMul(p.probTemp, p.probGrav),
                              atmosphereHabitability(p.atmosphere.composition, FOne))
                    ELSE FMul(p.probTemp, p.probGrav)] :
        p \in {calcPlanetHabitability(planet)}})

-----------------------------------------------------------------------------
(* planets of a star *)

\* the flag isInHz genPlanet sets for a distance and the star's hzDistAu
\* the flag with the limits included
isInHabitableZoneClosed(starDistance, hzDistAu) ==
    FGe(starDistance, hzDistAu[1]) /\ FLe(starDistance, hzDistAu[5])

isInHabitableZone(starDistance, hzDistAu) ==
    FGt(starDistance, hzDistAu[1]) /\ FLt(starDistance, hzDistAu[5])

\* the upper limit of the accretion band of genPlanet
bandUpperLimit(planetDistanceAu, lowerLimitAu) ==
    FSub(FAdd(planetDistanceAu, planetDistanceAu), lowerLimitAu)

\* lowerLimitAu left as it was passed
bandNextLowerLimitKept(lowerLimitAu, upperLimitAu) == lowerLimitAu

\* the value genPlanet leaves in lowerLimitAu for the next planet
bandNextLowerLimit(lowerLimitAu, upperLimitAu) == upperLimitAu

\* ProcUGalaxy::genPlanet(planetSeed, star, planetDistanceAu, lowerLimitAu) on
\* a stream in state rnd: the planet, the value lowerLimitAu is left with
\* (it is passed by reference) and the state the member rng is left in
genPlanetRun(planetSeed, star, planetDistanceAu, lowerLimitAu, rnd) ==
    Only({Only({Only({Only({Only({
        [planet |->
            [seed               |-> planetSeed,
             starDistance       |-> planetDistanceAu,
             isInHz             |-> isInHabitableZone(planetDistanceAu,
                                                      star.hzDistAu),
             mass               |-> mass,
             mu                 |-> FMul(G, mass),
             temperature        |-> temperature,
             equatorTemperature |->
                 FAdd(temperature, FMul(NextFloat(rnd), FromInt(50))),
             poleTemperature    |->
                 FSub(temperature, FMul(NextFloat(RngStep(rnd)), FromInt(50))),
             typeIndex          |-> typeIndex,
             radius             |-> radius,
             day                |-> FMul(FMul(FTwo, M_PI), radius),
             year               |-> FMul(FSqrt(FPowInt(planetDistanceAu, 3)),
                                         yearEarth),
             atmosphere         |-> atm.atmosphere],
         lowerLimitAu |-> bandNextLowerLimit(lowerLimitAu, upperLimitAu),
         upperLimitAu |-> upperLimitAu,
         rnd          |-> atm.rnd,
         draws        |-> 3 + atm.draws] :
        atm \in {createAtmosphereRun(typeIndex, radius,
                                     RngStep(RngStep(RngStep(rnd))))}}) :
        radius \in {FMul(between(Lit(planetTypeRange.Rearth_min[typeIndex]),
                                 Lit(planetTypeRange.Rearth_max[typeIndex]),
                                 NextFloat(RngStep(RngStep(rnd)))), Rearth)}}) :
        typeIndex \in {getPlanetTypeIndex(
                           [starDistance |-> planetDistanceAu, mass |-> mass],
                           star.hzDistAu[1], star.hzDistAu[5])}}) :
        \* mass = massDensity * (upperLimitAu - lowerLimitAu)
        mass \in {FMul(getStarMassDensity(star.mass, star.frostLimitAu,
                                          planetDistanceAu),
                       FSub(upperLimitAu, lowerLimitAu))}}) :
        upperLimitAu \in {bandUpperLimit(planetDistanceAu, lowerLimitAu)},
        temperature  \in {planetTemperature(star.luminosity, planetDistanceAu)}})

\* the seed without the step of the planet number
getPlanetSeedUnstepped(uStarSeed, n) == SeedAdd(uStarSeed, 0, 5432)

\* ProcUGalaxy::getPlanetSeeds(uStarSeed, howMany)[n]
getPlanetSeed(uStarSeed, n) == SeedAdd(uStarSeed, 0, 5432 + n * 10000 + n)

\* the distance genPlanets draws for its next planet
planetDistance(star, lowerLimitAu, planetDistanceAu, sample) ==
    IF FLt(lowerLimitAu, star.frostLimitAu)
    THEN FAdd(FAdd(lowerLimitAu, Dec(1, 1)),
              FMul(sample, FSub(star.frostLimitAu, lowerLimitAu)))
    ELSE Only({IF FLe(scaled, lowerLimitAu) THEN FAdd(scaled, lowerLimitAu)
               ELSE scaled :
               scaled \in {FMul(planetDistanceAu, FAdd(Dec(15, 1), sample))}})

\* one pass of the loop of genPlanets, from the state of its local variables
\* and of the member rng; stream is the seed the member rng was seeded with
\* last (genPlanets seeds it with the star seed, genPlanet with the planet
\* seed); bands records, for every planet generated so far, the limits and
\* the distance its accretion band was computed from and the stream its
\* distance was drawn from
planetsRun(starSeed, star, c) ==
    Only({Only({
        [i                |-> c.i + 1,
         lowerLimitAu     |-> run.lowerLimitAu,
         planetDistanceAu |-> distance,
         rnd              |-> run.rnd,
         stream           |-> planetSeed,
         draws            |-> c.draws + 1 + run.draws,
         planets          |-> MapPut(c.planets, planetSeed, run.planet),
         bands            |-> Append(c.bands,
                                     [seed     |-> planetSeed,
                                      lower    |-> c.lowerLimitAu,
                                      stream   |-> c.stream,
                                      distance |-> distance,
                                      upper    |-> run.upperLimitAu])] :
        run \in {genPlanetRun(planetSeed, star, distance, c.lowerLimitAu,
                              RngSeed(planetSeed))}}) :
        planetSeed \in {getPlanetSeed(starSeed, c.i)},
        distance   \in {planetDistance(star, c.lowerLimitAu, c.planetDistanceAu,
                                       NextFloat(c.rnd))}})

RECURSIVE planetsLoop(_, _, _)
planetsLoop(starSeed, star, c) ==
    IF c.i < star.planetsCount
    THEN planetsLoop(starSeed, star, planetsRun(starSeed, star, c))
    ELSE c

\* ProcUGalaxy::genPlanets for a star of the catalog: the planets map of the
\* star, the bands and the state of the member rng when it returns
genPlanetsRun(starSeed, star) ==
    planetsLoop(starSeed, star,
                [i                |-> 0,
                 lowerLimitAu     |-> FZero,
                 planetDistanceAu |-> FZero,
                 rnd              |-> RngSeed(starSeed),
                 stream           |-> starSeed,
                 draws            |-> 0,
                 planets          |-> star.planets,
                 bands            |-> <<>>])

-----------------------------------------------------------------------------
(* systems, sectors and seeds *)

\* A member declared without an initialiser keeps whatever its storage held
\* until it is assigned: the storage is either zero or stale.
Indeterminate == {"zeroed", "stale"}

\* an indeterminate uint64_t
indeterminateSeed(v) == IF v = "zeroed" THEN <<0, 0>> ELSE <<1311768, 467463790>>

\* UniverseSystem(): seed and sector have no initialiser
UniverseSystem(v) ==
    [seed         |-> indeterminateSeed(v),
     sector       |-> indeterminateSeed(v),
     position     |-> <<>>,
     stars        |-> EmptyMap,
     multiplicity |-> 0]

\* UniverseSector(): seed has no initialiser
UniverseSector(v) ==
    [seed |-> indeterminateSeed(v), position |-> <<>>, systemSeeds |-> <<>>]

\* the UniverseStar std::map::operator[] inserts for an absent key: seed,
\* hzDistAu and planetsCount have no initialiser
defaultStar(v) ==
    UniverseStar(indeterminateSeed(v),
                 [i \in 0 .. 7 |-> IF v = "zeroed" THEN FZero ELSE FOne],
                 IF v = "zeroed" THEN 0 ELSE 2)

MAX_SYSTEMS == 10

MAX_STARS == 3

SECTOR_SIZE_LY == 10

\* the extent of the galaxy in light years.  The source configures
\* {1.0e4, 100.0, 1.0e4}, 1000 x 10 x 1000 sectors; the configuration is a
\* public member, and the galaxy here is one of 2 x 1 x 1 sectors.
GALAXY_SIZE_LY == <<20, 10, 10>>

\* the values of a loop variable of genSectors along axis k:
\* for (int x = -size/SECTOR_SIZE_LY/2; x < size/SECTOR_SIZE_LY/2; ++x)
sectorRange(k) ==
    LET first == -(GALAXY_SIZE_LY[k] \div (2 * SECTOR_SIZE_LY))
    IN  {x \in first .. GALAXY_SIZE_LY[k] :
            2 * SECTOR_SIZE_LY * x < GALAXY_SIZE_LY[k]}

\* ProcUGalaxy::getSectorSeed(x, y, z) for a galaxy seed
getSectorSeed(seed, x, y, z) == SeedAdd(seed, 600000 + x, z * 100000 + y)

\* ProcUGalaxy::getSystemSeeds(uSectorSeed)
getSystemSeeds(uSectorSeed) ==
    [n \in 1 .. MAX_SYSTEMS |-> SeedAdd(uSectorSeed, 100 * (n - 1), 123)]

\* ProcUGalaxy::getStarSeeds(uSystemSeed, howMany)
\* the seeds without the step of the star number
getStarSeedsUnstepped(uSystemSeed, howMany) ==
    [n \in 1 .. howMany |-> SeedAdd(uSystemSeed, 0, 187600000)]

getStarSeeds(uSystemSeed, howMany) ==
    [n \in 1 .. howMany |-> SeedAdd(uSystemSeed, 0, 187600000 + 10000 * (n - 1))]

\* ProcUGalaxy::genSector(x, y, z)
genSector(seed, x, y, z) ==
    [seed        |-> getSectorSeed(seed, x, y, z),
     position    |-> <<x, y, z>>,
     systemSeeds |-> <<>>]

\* ProcUGalaxy::genSectors() on the map sectors of a galaxy with seed seed
genSectors(seed, sectorMap) ==
    LET made == {genSector(seed, x, y, z) :
                    x \in sectorRange(1), y \in sectorRange(2), z \in sectorRange(3)}
        keys == {sector.seed : sector \in made}
    IN  [k \in DOMAIN sectorMap \cup keys |->
            IF k \in keys THEN CHOOSE sector \in made : sector.seed = k
            ELSE sectorMap[k]]

\* ProcUGalaxy::genSystems(sectorSeed): sectors[sectorSeed] inserts a
\* UniverseSector() when the key is absent
genSystems(sectorMap, sectorSeed, v) ==
    MapPut(sectorMap, sectorSeed,
           [(IF sectorSeed \in DOMAIN sectorMap THEN sectorMap[sectorSeed]
             ELSE UniverseSector(v))
            EXCEPT !.systemSeeds = getSystemSeeds(sectorSeed)])

\* ProcUGalaxy::genSystem(systemSeed): the system it builds from its own
\* generator pcg32 rng(systemSeed), and the number of samples drawn
genSystemRun(systemSeed, v) ==
    LET rnd  == RngSeed(systemSeed)
        rnd1 == RngStep(rnd)
        rnd2 == RngStep(rnd1)
        rnd3 == RngStep(rnd2)
        rnum == NextFloat(rnd3)
    IN  [system |->
            [UniverseSystem(v) EXCEPT
                !.seed = systemSeed,
                !.position = <<FMul(NextFloat(rnd), FromInt(SECTOR_SIZE_LY)),
                               FMul(NextFloat(rnd1), FromInt(SECTOR_SIZE_LY)),
                               FMul(NextFloat(rnd2), FromInt(SECTOR_SIZE_LY))>>,
                !.multiplicity = getRndCdfIdx(rnum, starSystemMultiProbability) + 1],
         draws |-> 4]

\* systems[systemSeed]: the map after std::map::operator[]
systemsAt(systemMap, systemSeed, v) ==
    IF systemSeed \in DOMAIN systemMap THEN systemMap
    ELSE MapPut(systemMap, systemSeed, UniverseSystem(v))

\* one pass of the loop of genStars: star i of the system
RECURSIVE starsLoop(_, _, _, _)
starsLoop(layout, starSeeds, i, c) ==
    IF i > Len(starSeeds) THEN c
    ELSE Only({starsLoop(layout, starSeeds, i + 1,
                         [stars |-> MapPut(c.stars, starSeeds[i], run.star),
                          rnd   |-> run.rnd,
                          draws |-> c.draws + 5]) :
               run \in {genStarRun(layout, starSeeds[i], RngSeed(starSeeds[i]))}})

\* ProcUGalaxy::genStars(systemSeed) on the map systems and the member rng
genStars(layout, systemMap, rnd, systemSeed, v) ==
    Only({Only({
        [systems |-> [map EXCEPT ![systemSeed].stars = run.stars],
         rnd     |-> run.rnd,
         draws   |-> run.draws] :
        run \in {starsLoop(layout,
                           getStarSeeds(systemSeed, map[systemSeed].multiplicity), 1,
                           [stars |-> map[systemSeed].stars, rnd |-> rnd,
                            draws |-> 0])}}) :
        map \in {systemsAt(systemMap, systemSeed, v)}})

\* ProcUGalaxy::genPlanets(systemSeed, starSeed) on the map systems:
\* systems[systemSeed].stars[starSeed] inserts what is absent
genPlanets(systemMap, systemSeed, starSeed, v) ==
    Only({Only({Only({
        [systems |-> [map EXCEPT ![systemSeed].stars =
                         MapPut(map[systemSeed].stars, starSeed,
                                [star EXCEPT !.planets = run.planets])],
         rnd     |-> run.rnd,
         draws   |-> run.draws,
         bands   |-> run.bands] :
        run \in {genPlanetsRun(starSeed, star)}}) :
        star \in {IF starSeed \in DOMAIN map[systemSeed].stars
                  THEN map[systemSeed].stars[starSeed]
                  ELSE defaultStar(v)}}) :
        map \in {systemsAt(systemMap, systemSeed, v)}})

-----------------------------------------------------------------------------
(* serialization *)

\* to_json(j, system): the document of a system; to_json of a star and of a
\* planet give the elements of the arrays "stars" and "planets" (a star
\* has the key "planets" when its planetsCount is positive).  An array is
\* kept as the set of its elements.
to_json(system) ==
    [sector       |-> system.sector,
     seed         |-> system.seed,
     position     |-> system.position,
     multiplicity |-> system.multiplicity,
     stars        |->
        {IF system.stars[starSeed].planetsCount > 0
         THEN [seed    |-> system.stars[starSeed].seed,
               type    |-> system.stars[starSeed].typeIndex,
               mass    |-> system.stars[starSeed].mass,
               planets |->
                  {[seed        |-> system.stars[starSeed].planets[planetSeed].seed,
                    type        |-> system.stars[starSeed].planets[planetSeed].typeIndex,
                    mass        |-> system.stars[starSeed].planets[planetSeed].mass,
                    temperature |->
                        system.stars[starSeed].planets[planetSeed].temperature] :
                   planetSeed \in DOMAIN system.stars[starSeed].planets}]
         ELSE [seed |-> system.stars[starSeed].seed,
               type |-> system.stars[starSeed].typeIndex,
               mass |-> system.stars[starSeed].mass] :
         starSeed \in DOMAIN system.stars}]

\* from_json(j, system): the keys "seed" and "position" are read into the
\* system, which keeps its other fields
from_json(j, system) ==
    [system EXCEPT !.seed = j.seed, !.position = j.position]

-----------------------------------------------------------------------------
(* the galaxy catalog: two ProcUGalaxy instances of one build that receive   *)
(* the same calls with the same arguments                                    *)

Galaxies == {1, 2}

\* the seeds setGalaxySeed is called with
GalaxySeeds == {<<0, 6>>, <<0, 48>>}

\* the sectors callers ask for: those of genSectors
SectorCoordinates == sectorRange(1) \X sectorRange(2) \X sectorRange(3)

\* the system callers ask for: the first system of sector (0, 0, 0), from
\* getSystemSeeds(getSectorSeed(0, 0, 0))
homeSystem(seed) == getSystemSeeds(getSectorSeed(seed, 0, 0, 0))[1]

\* the stars callers ask for: the first two of getStarSeeds for the system
StarNumbers == {1, 2}

homeStar(seed, n) == getStarSeeds(homeSystem(seed), n)[n]

\* the calls made on an instance in one run
MaxCalls == 3

\* the state pcg32() constructs: a fixed state, the same in every instance
DefaultRng == RngSeed(<<0, 0>>)

NoCall == [op |-> "none", hit |-> FALSE, draws |-> 0, bands |-> <<>>]

NoProbe == [fn |-> "none"]

-----------------------------------------------------------------------------
(* libprocu-dialogue: a dialogue is a list of nodes, a node a list of        *)
(* components, a selection component a list of items.  An optional member    *)
(* that holds no value is a field the record does not have.                  *)

\* a function returned value
Returned(value) == [kind |-> "return", value |-> value]

\* a function left by an exception: "string" for a thrown std::string,
\* "bad_optional_access" for value() of an optional that holds none
Thrown(what) == [kind |-> "throw", what |-> what]

\* the first loop of sortItems: an item without a sequence gets its
\* position in the list
numberItems(items) ==
    [i \in 1 .. Len(items) |->
        IF "sequence" \in DOMAIN items[i] THEN items[i]
        ELSE [f \in DOMAIN items[i] \cup {"sequence"} |->
                 IF f = "sequence" THEN i ELSE items[i][f]]]

\* compareItemSequence(i1, i2)
compareItemSequence(i1, i2) == i1.sequence < i2.sequence

\* sortItems(obj): the components std::sort can leave; it is not stable, so
\* items of equal sequence come in any order
sortItems(obj) ==
    IF "items" \notin DOMAIN obj THEN {obj}
    ELSE IF Len(obj.items) = 1
    THEN {[obj EXCEPT !.items = numberItems(obj.items)]}
    ELSE {[obj EXCEPT !.items = [i \in 1 .. Len(obj.items) |-> items[order[i]]]] :
             order \in {p \in [1 .. Len(obj.items) -> 1 .. Len(obj.items)] :
                          /\ \A i, j \in 1 .. Len(obj.items) :
                                 i # j => p[i] # p[j]
                          /\ \A i, j \in 1 .. Len(obj.items) :
                                 i < j => ~compareItemSequence(
                                              numberItems(obj.items)[p[j]],
                                              numberItems(obj.items)[p[i]])},
             items \in {numberItems(obj.items)}}

\* getStartNode(dlg): the first node of type node-init
getStartNode(dlg) ==
    IF \E i \in 1 .. Len(dlg.nodes) : dlg.nodes[i].type = "node-init"
    THEN Returned(dlg.nodes[CHOOSE i \in 1 .. Len(dlg.nodes) :
                      /\ dlg.nodes[i].type = "node-init"
                      /\ \A k \in 1 .. i - 1 : dlg.nodes[k].type # "node-init"])
    ELSE Thrown("string")

\* getNodeById(dlg, nid): the first node of id nid
getNodeById(dlg, nid) ==
    IF \E i \in 1 .. Len(dlg.nodes) : dlg.nodes[i].id = nid
    THEN Returned(dlg.nodes[CHOOSE i \in 1 .. Len(dlg.nodes) :
                      /\ dlg.nodes[i].id = nid
                      /\ \A k \in 1 .. i - 1 : dlg.nodes[k].id # nid])
    ELSE Thrown("string")

\* the loop of getItemFromSequence from item i on: it ends at the first
\* item without a sequence, and a later item of the sequence replaces an
\* earlier one; found is <<>> while itemptr is null
RECURSIVE itemFromSequenceLoop(_, _, _, _)
itemFromSequenceLoop(items, seq, i, found) ==
    IF i > Len(items) \/ "sequence" \notin DOMAIN items[i] THEN found
    ELSE itemFromSequenceLoop(items, seq, i + 1,
                              IF items[i].sequence = seq THEN <<items[i]>>
                              ELSE found)

\* getItemFromSequence(obj, seq)
getItemFromSequence(obj, seq) ==
    IF "items" \notin DOMAIN obj THEN Thrown("bad_optional_access")
    ELSE IF itemFromSequenceLoop(obj.items, seq, 1, <<>>) = <<>>
    THEN Thrown("string")
    ELSE Returned(itemFromSequenceLoop(obj.items, seq, 1, <<>>)[1])

\* getNextNodeIdFromSequence(obj, seq): the string getItemFromSequence
\* throws is caught and "" is returned; any other exception passes
getNextNodeIdFromSequence(obj, seq) ==
    Only({IF found.kind = "throw"
          THEN (IF found.what = "string" THEN Returned("") ELSE found)
          ELSE IF found.value.sequence = seq
                  /\ "nextNodeId" \notin DOMAIN found.value
          THEN Thrown("bad_optional_access")
          ELSE IF found.value.sequence # seq \/ found.value.nextNodeId = ""
          THEN Thrown("string")
          ELSE Returned(found.value.nextNodeId) :
             found \in {getItemFromSequence(obj, seq)}})

\* getNextNodeIdFromComponent(obj)
getNextNodeIdFromComponent(obj) ==
    IF "nextNodeId" \notin DOMAIN obj THEN Thrown("string")
    ELSE Returned(obj.nextNodeId)

\* execComponentSelection(obj): the component it leaves, its items sorted;
\* listing an item with neither hint nor text throws
execComponentSelection(obj) ==
    IF "items" \notin DOMAIN obj THEN {Returned(obj)}
    ELSE {IF \E i \in 1 .. Len(sorted.items) :
                 /\ "hint" \notin DOMAIN sorted.items[i]
                 /\ "text" \notin DOMAIN sorted.items[i]
          THEN Thrown("bad_optional_access")
          ELSE Returned(sorted) : sorted \in sortItems(obj)}

\* the sequence numbers a user enters at "your selection: "
MaxInput == 3

Inputs == 0 .. MaxInput

\* a node that ends the dialogue with a line of text
exitNode(id) ==
    [id |-> id, type |-> "node-exit",
     components |-> <<[type |-> "component-text", text |-> "bye"]>>]

\* Dialogues as loadDialogue reads them.  In all but "noInit", "dangling"
\* and "emptyId" there is a node-init node and every next-node-id names a
\* node.
Dialogues ==
    {[id |-> "shortest", nodes |-> <<
         [id |-> "start", type |-> "node-init", components |-> <<
             [type |-> "component-text", text |-> "hello"],
             [type |-> "component-next", nextNodeId |-> "end"]>>],
         exitNode("end")>>],
     [id |-> "choice", nodes |-> <<
         [id |-> "start", type |-> "node-init", components |-> <<
             [type |-> "component-text", text |-> "well?"],
             [type |-> "component-selection", items |-> <<
                 [sequence |-> 2, text |-> "leave", nextNodeId |-> "end"],
                 [sequence |-> 1, text |-> "more", nextNodeId |-> "more"]>>]>>],
         [id |-> "more", type |-> "node", components |-> <<
             [type |-> "component-text", text |-> "more", nextNodeId |-> "start"]>>],
         exitNode("end")>>],
     [id |-> "farewell", nodes |-> <<
         [id |-> "start", type |-> "node-init", components |-> <<
             [type |-> "component-next", nextNodeId |-> "end"]>>],
         [id |-> "end", type |-> "node-exit", components |-> <<
             [type |-> "component-text", text |-> "leaving"],
             [type |-> "component-selection", items |-> <<
                 [sequence |-> 1, text |-> "goodbye", nextNodeId |-> "end"],
                 [sequence |-> 2, text |-> "so long", nextNodeId |-> "end"]>>],
             [type |-> "component-text", text |-> "bye"]>>]>>],
     [id |-> "unnumbered", nodes |-> <<
         [id |-> "start", type |-> "node-init", components |-> <<
             [type |-> "component-selection", items |-> <<
                 [text |-> "leave", nextNodeId |-> "end"],
                 [hint |-> "stay", text |-> "stay here"],
                 [sequence |-> 1, text |-> "again", nextNodeId |-> "start"]>>]>>],
         exitNode("end")>>],
     [id |-> "untexted", nodes |-> <<
         [id |-> "start", type |-> "node-init", components |-> <<
             [type |-> "component-selection", items |-> <<
                 [sequence |-> 1, nextNodeId |-> "end"]>>]>>],
         exitNode("end")>>],
     [id |-> "noItems", nodes |-> <<
         [id |-> "start", type |-> "node-init", components |-> <<
             [type |-> "component-selection", nextNodeId |-> "end"]>>],
         exitNode("end")>>],
     [id |-> "idle", nodes |-> <<
         [id |-> "start", type |-> "node-init", components |-> <<
             [type |-> "component-next", nextNodeId |-> "wait"]>>],
         [id |-> "wait", type |-> "node", components |-> <<
             [type |-> "component-text", text |-> "..."]>>],
         exitNode("end")>>],
     [id |-> "exitFirst", nodes |-> <<
         exitNode("end"),
         [id |-> "start", type |-> "node-init", components |-> <<
             [type |-> "component-text", text |-> "hello", nextNodeId |-> "mid"],
             [type |-> "component-next", nextNodeId |-> "end"]>>],
         [id |-> "mid", type |-> "node", components |-> <<>>]>>],
     [id |-> "tour", nodes |-> <<
         [id |-> "start", type |-> "node-init", components |-> <<
             [type |-> "component-text", text |-> "welcome"],
             [type |-> "component-next", nextNodeId |-> "hall"]>>],
         [id |-> "hall", type |-> "node", components |-> <<
             [type |-> "component-selection", text |-> "where to?", items |-> <<
                 [sequence |-> 3, text |-> "back", nextNodeId |-> "start"],
                 [sequence |-> 1, hint |-> "room", nextNodeId |-> "room"],
                 [sequence |-> 2, text |-> "out", nextNodeId |-> "end"]>>]>>],
         [id |-> "room", type |-> "node", components |-> <<
             [type |-> "component-text", text |-> "a room"],
             [type |-> "component-text", text |-> "a door", nextNodeId |-> "hall"]>>],
         exitNode("end")>>],
     [id |-> "duplicate", nodes |-> <<
         [id |-> "start", type |-> "node-init", components |-> <<
             [type |-> "component-selection", items |-> <<
                 [sequence |-> 1, text |-> "leave", nextNodeId |-> "end"],
                 [sequence |-> 1, text |-> "stay", nextNodeId |-> "start"]>>]>>],
         exitNode("end")>>],
     [id |-> "emptyId", nodes |-> <<
         [id |-> "start", type |-> "node-init", components |-> <<
             [type |-> "component-selection", items |-> <<
                 [sequence |-> 1, text |-> "leave", nextNodeId |-> ""],
                 [sequence |-> 2, text |-> "leave", nextNodeId |-> "end"]>>]>>],
         exitNode("end")>>],
     [id |-> "noInit", nodes |-> <<
         [id |-> "start", type |-> "node", components |-> <<
             [type |-> "component-next", nextNodeId |-> "end"]>>],
         exitNode("end")>>],
     [id |-> "dangling", nodes |-> <<
         [id |-> "start", type |-> "node-init", components |-> <<
             [type |-> "component-next", nextNodeId |-> "nowhere"]>>],
         exitNode("end")>>]}

\* the selection components of the dialogues, as loaded and as
\* execComponentSelection leaves them
SelectionComponents ==
    UNION {UNION {UNION {{dlg.nodes[n].components[c]}
                         \cup sortItems(dlg.nodes[n].components[c]) :
                            c \in {c \in 1 .. Len(dlg.nodes[n].components) :
                                     dlg.nodes[n].components[c].type
                                         = "component-selection"}} :
                     n \in 1 .. Len(dlg.nodes)} :
              dlg \in Dialogues}

\* the dialogue has a node-init node, and every next-node-id of a component
\* or of an item names a node
wellFormed(dlg) ==
    /\ \E n \in 1 .. Len(dlg.nodes) : dlg.nodes[n].type = "node-init"
    /\ \A n \in 1 .. Len(dlg.nodes) :
          \A c \in 1 .. Len(dlg.nodes[n].components) :
              /\ "nextNodeId" \in DOMAIN dlg.nodes[n].components[c]
                     => getNodeById(dlg, dlg.nodes[n].components[c].nextNodeId).kind
                            = "return"
              /\ "items" \in DOMAIN dlg.nodes[n].components[c]
                     => \A i \in 1 .. Len(dlg.nodes[n].components[c].items) :
                            "nextNodeId" \in DOMAIN dlg.nodes[n].components[c].items[i]
                                => getNodeById(dlg, dlg.nodes[n].components[c]
                                                       .items[i].nextNodeId).kind
                                       = "return"

\* the rest of the body of the component loop of mainLoopDemo1 after the
\* selection: a component with a next-node-id sets nextNodeId
componentNext(obj, nextNodeId) ==
    [pc         |-> "components",
     obj        |-> obj,
     nextNodeId |-> IF "nextNodeId" \notin DOMAIN obj THEN nextNodeId
                    ELSE getNextNodeIdFromComponent(obj).value]

\* the body of the component loop of mainLoopDemo1 for the component obj:
\* what it leaves for each input the user can enter.  A thrown string is
\* caught and the function returns; any other exception ends the program.
execComponent(obj, nextNodeId) ==
    IF obj.type # "component-selection" THEN {componentNext(obj, nextNodeId)}
    ELSE UNION {IF listed.kind = "throw"
                THEN {[pc |-> "terminated", obj |-> obj,
                       nextNodeId |-> nextNodeId]}
                ELSE {IF picked.kind = "return"
                      THEN componentNext(listed.value, picked.value)
                      ELSE [pc         |-> IF picked.what = "string"
                                           THEN "returned" ELSE "terminated",
                            obj        |-> listed.value,
                            nextNodeId |-> nextNodeId] :
                         picked \in {getNextNodeIdFromSequence(listed.value, iInput) :
                                       iInput \in Inputs}} :
                   listed \in execComponentSelection(obj)}

\* createComposition is not running
NoAccretion == [run |-> -1]

\* mainLoopDemo1 is not running
NoDemo == [pc |-> "none"]

\* the threads that call into one ProcUGalaxy
Threads == {1, 2}

\* no thread has entered genStar
NoThreads == [t \in Threads |-> [pc |-> "idle", drawn |-> <<>>]]

VARIABLES
    build,       \* the layout of the coefficient arrays of habitableZoneComplete
    storage,     \* storage[g]: what the uninitialised members of instance g hold
    galaxySeed,  \* galaxySeed[g]: the member galaxySeed of instance g
    rng,         \* rng[g]: the state of the member rng
    sectors,     \* sectors[g]: the map sectors
    systems,     \* systems[g]: the map systems
    seeded,      \* "never", or whether setGalaxySeed came "first" or "late"
    calls,       \* the number of calls made
    last,        \* last[g]: the last generation call, whether its key was
                 \* stored before, the samples it drew, the bands it computed
    call,        \* the function applied to sampled inputs, with the inputs
    ret,         \* what it returned
    accretion,   \* the local variables of createComposition while it runs
    demo,        \* the dialogue and the locals of mainLoopDemo1: where it
                 \* is, currNode, nextNodeId, the component it is at
    threads      \* threads[t]: the position of thread t in genStar, the
                 \* samples it has drawn and the star it returned

vars ==
    <<build, storage, galaxySeed, rng, sectors, systems, seeded, calls, last,
      call, ret, accretion, demo, threads>>

\* a fresh ProcUGalaxy: galaxySeed has no initialiser.  The two instances
\* are interchangeable, so of two mirrored choices of storage one is taken.
InitCatalog ==
    /\ storage \in {v \in [Galaxies -> Indeterminate] :
                       v[1] = "zeroed" \/ v[2] = "stale"}
    /\ galaxySeed = [g \in Galaxies |-> indeterminateSeed(storage[g])]
    /\ rng = [g \in Galaxies |-> DefaultRng]
    /\ sectors = [g \in Galaxies |-> EmptyMap]
    /\ systems = [g \in Galaxies |-> EmptyMap]
    /\ seeded = "never"
    /\ calls = 0
    /\ last = [g \in Galaxies |-> NoCall]

Init ==
    /\ build \in HzLayouts
    /\ InitCatalog
    /\ call = NoProbe
    /\ ret = NoProbe
    /\ accretion = NoAccretion
    /\ demo = NoDemo
    /\ threads = NoThreads

\* a call is counted; a generation call before any setGalaxySeed leaves the
\* seed indeterminate
Called(first) ==
    /\ calls < MaxCalls
    /\ calls' = calls + 1
    /\ seeded' = (IF seeded = "never" THEN first ELSE seeded)
    /\ UNCHANGED <<build, storage, call, ret, accretion, demo, threads>>

\* setGalaxySeed(seed) on both instances
SetGalaxySeed ==
    \E seed \in GalaxySeeds :
        /\ Called("first")
        /\ galaxySeed' = [g \in Galaxies |-> seed]
        /\ rng' = [g \in Galaxies |-> RngSeed(seed)]
        /\ last' = [g \in Galaxies |-> [NoCall EXCEPT !.op = "setGalaxySeed"]]
        /\ UNCHANGED <<sectors, systems>>

\* genSectors() on both instances
GenSectors ==
    /\ Called("late")
    /\ sectors' = [g \in Galaxies |-> genSectors(galaxySeed[g], sectors[g])]
    /\ last' = [g \in Galaxies |-> [NoCall EXCEPT !.op = "genSectors"]]
    /\ UNCHANGED <<galaxySeed, rng, systems>>

\* genSystems(getSectorSeed(x, y, z)) on both instances
GenSystems ==
    /\ Called("late")
    /\ \E c \in SectorCoordinates :
        \E sectorSeed \in {[g \in Galaxies |->
                              getSectorSeed(galaxySeed[g], c[1], c[2], c[3])]} :
            /\ sectors' = [g \in Galaxies |->
                              genSystems(sectors[g], sectorSeed[g], storage[g])]
            /\ last' = [g \in Galaxies |->
                           [NoCall EXCEPT !.op = "genSystems",
                                          !.hit = sectorSeed[g] \in DOMAIN sectors[g]]]
            /\ UNCHANGED <<galaxySeed, rng, systems>>

\* genSystem(systemSeed) on both instances
GenSystem ==
    /\ Called("late")
    /\ \E run \in {[g \in Galaxies |->
                      genSystemRun(homeSystem(galaxySeed[g]), storage[g])]} :
        /\ systems' = [g \in Galaxies |->
                          MapPut(systems[g], run[g].system.seed, run[g].system)]
        /\ last' = [g \in Galaxies |->
                       [op    |-> "genSystem",
                        hit   |-> run[g].system.seed \in DOMAIN systems[g],
                        draws |-> run[g].draws,
                        bands |-> <<>>]]
        /\ UNCHANGED <<galaxySeed, rng, sectors>>

\* genStars(systemSeed) on both instances
GenStars ==
    /\ Called("late")
    /\ \E run \in {[g \in Galaxies |->
                      genStars(build, systems[g], rng[g], homeSystem(galaxySeed[g]),
                               storage[g])]} :
        /\ systems' = [g \in Galaxies |-> run[g].systems]
        /\ rng' = [g \in Galaxies |-> run[g].rnd]
        /\ last' = [g \in Galaxies |->
                       [op    |-> "genStars",
                        hit   |-> homeSystem(galaxySeed[g]) \in DOMAIN systems[g],
                        draws |-> run[g].draws,
                        bands |-> <<>>]]
        /\ UNCHANGED <<galaxySeed, sectors>>

\* genPlanets(systemSeed, starSeed) on both instances
GenPlanets ==
    /\ Called("late")
    /\ \E n \in StarNumbers :
        \E run \in {[g \in Galaxies |->
                       genPlanets(systems[g], homeSystem(galaxySeed[g]),
                                  homeStar(galaxySeed[g], n), storage[g])]} :
            /\ systems' = [g \in Galaxies |-> run[g].systems]
            /\ rng' = [g \in Galaxies |-> run[g].rnd]
            /\ last' = [g \in Galaxies |->
                           [op    |-> "genPlanets",
                            hit   |-> /\ homeSystem(galaxySeed[g]) \in DOMAIN systems[g]
                                      /\ homeStar(galaxySeed[g], n) \in DOMAIN
                                            systems[g][homeSystem(galaxySeed[g])].stars,
                            draws |-> run[g].draws,
                            bands |-> run[g].bands]]
            /\ UNCHANGED <<galaxySeed, sectors>>

Next ==
    \/ SetGalaxySeed
    \/ GenSectors
    \/ GenSystems
    \/ GenSystem
    \/ GenStars
    \/ GenPlanets

Spec == Init /\ [][Next]_vars

-----------------------------------------------------------------------------
(* the functions of the library applied to sampled inputs: Init draws the   *)
(* inputs of one application, the action of the function applies it         *)

\* the star generated from the stream in state rnd, under a seed that
\* seeds to rnd
probeStar(layout, rnd) == genStarRun(layout, <<0, rnd>>, rnd).star

\* planet masses in Earth masses: inside, on and beyond the limits of the
\* mass classes, and no number
EarthMasses ==
    {FZero, Dec(5, 2), Dec(1, 1), Dec(3, 1), FHalf, FOne, FTwo, FromInt(5),
     FromInt(10), FromInt(30), FromInt(50), FromInt(300), FromInt(1000),
     FromInt(5000), FNaN}

\* The applications under a build.  Planet masses (in Earth masses) and
\* distances lie inside, on and beyond the class and zone limits; the
\* samples a cumulative distribution is asked for are those of the generator,
\* the bound 1 and a value beyond it; a probed planet is put relative to the
\* limits hzDistAu[1] and hzDistAu[5] of a star, the star given by the state
\* of the stream it is generated from.  The functions that do not read the
\* coefficient arrays are applied under one build only.
Calls(layout) ==
    LET radiusSamples == {FZero, FHalf}
        temperatures  == {FromInt(t) : t \in {0, 500, 2600, 3000, 5780, 7200,
                                               10000, 30000, 54000}}
        luminosities  == {FZero, Dec(1, 4), FOne, FromInt(100), Sci(32, 5)}
        earthMasses   == EarthMasses
        distances     == {FZero, FHalf, Dec(75, 2), FOne, Dec(177, 2),
                          FromInt(5), FromInt(40)}
        zoneLimits    == {<<FZero, FZero>>, <<Dec(75, 2), Dec(177, 2)>>}
        cdfSamples    == {NextFloat(rnd) : rnd \in RngStates} \cup {FOne, FTwo}
        probeStars    == {11, 15, 36, 47}
        probeStreams  == {0, 7, 30, 60}
        placements    == {"inner", "outer", "between", "below", "above"}
        lowerLimits   == {FZero, Dec(1, 1)}
        \* sector coordinates of the default configuration: x and z in
        \* -500 .. 499, y in -5 .. 4
        sectorSamples == {<<0, 0, 0>>, <<100, 0, 0>>, <<0, 1, 0>>, <<0, 0, 1>>,
                          <<-500, -5, -500>>, <<499, 4, 499>>}
        \* planets for getPlanetHabitability: surface temperatures in K,
        \* bodies of a mass in kg and a radius in km, and atmospheres of air,
        \* of carbon dioxide and of thin oxygen at three pressures
        surfaces      == {FromInt(t) : t \in {200, 223, 260, 293, 323, 350}}
        bodies        == {<<Mearth, Rearth>>, <<FZero, Rearth>>, <<Mearth, FZero>>,
                          <<FMul(FromInt(10), Mearth), Rearth>>,
                          <<FMul(Dec(1, 1), Mearth), Rearth>>,
                          <<FMul(FTwo, Mearth), Rearth>>}
        mixtures      == {("N2" :> Dec(78, 2)) @@ ("O2" :> Dec(21, 2))
                              @@ ("Ar" :> Dec(1, 2)),
                          ("CO2" :> Dec(96, 2)) @@ ("N2" :> Dec(4, 2)),
                          ("O2" :> Dec(1, 1)) @@ ("N2" :> Dec(9, 1))}
        atmospheres   == {UniverseAtmosphere}
                         \cup [radius : {Rearth},
                               pressure : {FHalf, FOne, FromInt(10)},
                               composition : mixtures]
    IN  [fn : {"habitableZoneComplete"}, tEff : temperatures,
         lumStar : luminosities]
        \cup [fn : {"genStar"}, rnd : RngStates]
        \cup [fn : {"genPlanet"}, star : probeStars, where : placements,
              lowerLimitAu : lowerLimits, rnd : probeStreams]
        \cup [fn : {"genPlanets"}, rnd : RngStates]
        \cup [fn : {"genSystem"}, systemSeed : {<<0, rnd>> : rnd \in RngStates}]
        \cup (IF layout # "declared" THEN {}
              ELSE [fn : {"createComposition"}, rnd : RngStates]
                   \cup [fn : {"createAtmosphere"}, typeIndex : 0 .. 17,
                         sample : radiusSamples, rnd : RngStates]
                   \cup [fn : {"getPlanetTypeIndex"}, starDistance : distances,
                         mass : earthMasses, limits : zoneLimits]
                   \cup [fn : {"getRndCdfIdx"}, rn : cdfSamples,
                         cdf : {"starTypeProbability",
                                "starSystemMultiProbability"}]
                   \cup [fn : {"getSystemSeeds"}, seed : GalaxySeeds,
                         a : sectorSamples, b : sectorSamples]
                   \cup [fn : {"to_json"}, systemSeed : {<<0, 0>>, <<0, 18>>}]
                   \cup [fn : {"getNextNodeIdFromSequence"},
                         obj : SelectionComponents, seq : Inputs]
                   \cup [fn : {"getPlanetHabitability"}, isInHz : BOOLEAN,
                         temperature : surfaces, body : bodies,
                         atmosphere : atmospheres])

\* the catalog is fresh and is left alone
InitFn ==
    /\ build \in HzLayouts
    /\ call \in Calls(build)
    /\ ret = NoProbe
    /\ InitCatalog
    /\ storage = [g \in Galaxies |-> "zeroed"]
    /\ accretion = NoAccretion
    /\ demo = NoDemo
    /\ threads = NoThreads

\* an application returns once
Apply(fn) ==
    /\ call.fn = fn
    /\ ret = NoProbe
    /\ UNCHANGED <<build, storage, galaxySeed, rng, sectors, systems, seeded,
                   calls, last, call, accretion, demo, threads>>

\* createComposition(composition, rnd) on an empty map
ApplyCreateComposition ==
    /\ Apply("createComposition")
    /\ \E mix \in {compositionLoop(compositionStart(EmptyMap, call.rnd))} :
          ret' = [fn |-> call.fn, composition |-> mix.composition,
                  run |-> mix.run, part |-> mix.part]

\* createAtmosphere(typeIndex, planetRadius, rnd) for the radius genPlanet
\* gives a planet of the type for a sample
ApplyCreateAtmosphere ==
    /\ Apply("createAtmosphere")
    /\ \E planetRadius \in
             {FMul(between(Lit(planetTypeRange.Rearth_min[call.typeIndex]),
                           Lit(planetTypeRange.Rearth_max[call.typeIndex]), call.sample),
                   Rearth)} :
          \E run \in {createAtmosphereRun(call.typeIndex, planetRadius, call.rnd)} :
              ret' = [fn |-> call.fn, planetRadius |-> planetRadius,
                      atmosphere |-> run.atmosphere, atmProb |-> run.atmProb]

ApplyGetPlanetTypeIndex ==
    /\ Apply("getPlanetTypeIndex")
    /\ ret' = [fn |-> call.fn,
               typeIndex |-> getPlanetTypeIndex(
                   [starDistance |-> call.starDistance,
                    mass |-> FMul(call.mass, Mearth)],
                   call.limits[1], call.limits[2])]

ApplyGetRndCdfIdx ==
    /\ Apply("getRndCdfIdx")
    /\ ret' = [fn |-> call.fn,
               idx |-> getRndCdfIdx(call.rn,
                           IF call.cdf = "starTypeProbability"
                           THEN starTypeProbability
                           ELSE starSystemMultiProbability)]

\* getSystemSeeds(getSectorSeed(x, y, z)) for two sectors a and b of a galaxy
ApplyGetSystemSeeds ==
    /\ Apply("getSystemSeeds")
    /\ ret' = [fn |-> call.fn,
               a  |-> getSystemSeeds(getSectorSeed(call.seed, call.a[1], call.a[2],
                                                   call.a[3])),
               b  |-> getSystemSeeds(getSectorSeed(call.seed, call.b[1], call.b[2],
                                                   call.b[3]))]

ApplyHabitableZoneComplete ==
    /\ Apply("habitableZoneComplete")
    /\ ret' = [fn |-> call.fn,
               sEff |-> [i \in 1 .. 7 |-> hzFlux(build, call.tEff, i)],
               hzDistAu |-> habitableZoneComplete(build, call.tEff, call.lumStar)]

ApplyGenStar ==
    /\ Apply("genStar")
    /\ ret' = [fn |-> call.fn, star |-> probeStar(build, call.rnd)]

\* genPlanet for the first planet seed of a probed star, the planet put on,
\* between or beyond the limits hzDistAu[1] and hzDistAu[5]
ApplyGenPlanet ==
    /\ Apply("genPlanet")
    /\ \E star \in {probeStar(build, call.star)} :
          \E distance \in
                {CASE call.where = "inner"   -> star.hzDistAu[1]
                   [] call.where = "outer"   -> star.hzDistAu[5]
                   [] call.where = "between" ->
                         FDiv(FAdd(star.hzDistAu[1], star.hzDistAu[5]), FTwo)
                   [] call.where = "below"   -> FDiv(star.hzDistAu[1], FTwo)
                   [] OTHER -> FAdd(FMul(star.hzDistAu[5], FTwo), FOne)} :
              \E run \in {genPlanetRun(getPlanetSeed(star.seed, 0), star, distance,
                                       call.lowerLimitAu, call.rnd)} :
                  ret' = [fn |-> call.fn, hzDistAu |-> star.hzDistAu,
                          planet |-> run.planet,
                          lowerLimitAu |-> run.lowerLimitAu,
                          upperLimitAu |-> run.upperLimitAu]

\* the loop of genPlanets for a generated star
ApplyGenPlanets ==
    /\ Apply("genPlanets")
    /\ \E star \in {probeStar(build, call.rnd)} :
          \E run \in {genPlanetsRun(star.seed, star)} :
              ret' = [fn |-> call.fn, star |-> star, planets |-> run.planets,
                      bands |-> run.bands]

\* getPlanetHabitability(planet) for a planet of the given fields
ApplyGetPlanetHabitability ==
    /\ Apply("getPlanetHabitability")
    /\ \E run \in {getPlanetHabitability(
                       [isInHz      |-> call.isInHz,
                        temperature |-> call.temperature,
                        mass        |-> call.body[1],
                        radius      |-> call.body[2],
                        atmosphere  |-> call.atmosphere,
                        probTemp    |-> FZero,
                        probGrav    |-> FZero])} :
          ret' = [fn |-> call.fn, planet |-> run.planet, value |-> run.value]

\* a system of the sector at the origin, with its stars and the planets of
\* its first star, written with to_json and read with from_json into a
\* UniverseSystem()
ApplyToJson ==
    /\ Apply("to_json")
    /\ \E made \in {[genSystemRun(call.systemSeed, storage[1]).system
                         EXCEPT !.sector = getSectorSeed(<<0, 0>>, 0, 0, 0)]} :
          \E stars \in {genStars(build, MapPut(systems[1], call.systemSeed, made),
                                 rng[1], call.systemSeed, storage[1])} :
              \E run \in {genPlanets(stars.systems, call.systemSeed,
                                     getStarSeeds(call.systemSeed, 1)[1],
                                     storage[1])} :
                  ret' = [fn     |-> call.fn,
                          system |-> run.systems[call.systemSeed],
                          j      |-> to_json(run.systems[call.systemSeed]),
                          back   |-> from_json(to_json(run.systems[call.systemSeed]),
                                               UniverseSystem(storage[1]))]

\* genSystem(systemSeed) and then genStars(systemSeed) on a fresh catalog:
\* the entry of systems they leave
ApplyGenSystem ==
    /\ Apply("genSystem")
    /\ \E made \in {genSystemRun(call.systemSeed, storage[1]).system} :
          \E run \in {genStars(build,
                               MapPut(systems[1], call.systemSeed, made),
                               rng[1], call.systemSeed, storage[1])} :
              ret' = [fn        |-> call.fn,
                      made      |-> made,
                      starSeeds |-> getStarSeeds(call.systemSeed, made.multiplicity),
                      system    |-> run.systems[call.systemSeed]]

\* getNextNodeIdFromSequence(obj, seq) on a selection component
ApplyGetNextNodeIdFromSequence ==
    /\ Apply("getNextNodeIdFromSequence")
    /\ ret' = [fn      |-> call.fn,
               outcome |-> getNextNodeIdFromSequence(call.obj, call.seq)]

NextFn ==
    \/ ApplyGetNextNodeIdFromSequence
    \/ ApplyCreateComposition
    \/ ApplyCreateAtmosphere
    \/ ApplyGetPlanetTypeIndex
    \/ ApplyGetRndCdfIdx
    \/ ApplyGetSystemSeeds
    \/ ApplyGetPlanetHabitability
    \/ ApplyToJson
    \/ ApplyHabitableZoneComplete
    \/ ApplyGenSystem
    \/ ApplyGenStar
    \/ ApplyGenPlanet
    \/ ApplyGenPlanets

SpecFn == InitFn /\ [][NextFn]_vars

-----------------------------------------------------------------------------
(* two threads that call genStar on instance 1 for two stars of one system;  *)
(* a step is one rng.seed or one draw from the member rng                    *)

\* the two star seeds of the first system of the sector at the origin of
\* the galaxy of seed 6
InitPar ==
    /\ build \in HzLayouts
    /\ call \in {[fn        |-> "genStar",
                  starSeeds |-> getStarSeeds(
                                   getSystemSeeds(getSectorSeed(seed, 0, 0, 0))[1],
                                   2)] : seed \in {<<0, 6>>}}
    /\ ret = NoProbe
    /\ InitCatalog
    /\ storage = [g \in Galaxies |-> "zeroed"]
    /\ accretion = NoAccretion
    /\ demo = NoDemo
    /\ threads = NoThreads

\* rng.seed(starSeed) of genStar in thread t
ThreadSeed(t) ==
    /\ threads[t].pc = "idle"
    /\ rng' = [rng EXCEPT ![1] = RngSeed(call.starSeeds[t])]
    /\ threads' = [threads EXCEPT ![t].pc = "draw"]
    /\ UNCHANGED <<build, storage, galaxySeed, sectors, systems, seeded,
                   calls, last, call, ret, accretion, demo>>

\* one rng.nextFloat() or rng.nextUInt(8) of genStar in thread t; after the
\* fifth draw genStar returns the star
ThreadDraw(t) ==
    /\ threads[t].pc = "draw"
    /\ rng' = [rng EXCEPT ![1] = RngStep(rng[1])]
    /\ \E drawn \in {Append(threads[t].drawn, rng[1])} :
          threads' = [threads EXCEPT ![t] =
                         IF Len(drawn) < 5
                         THEN [pc |-> "draw", drawn |-> drawn]
                         ELSE [pc    |-> "done",
                               drawn |-> drawn,
                               star  |-> genStar(build, call.starSeeds[t], drawn)]]
    /\ UNCHANGED <<build, storage, galaxySeed, sectors, systems, seeded,
                   calls, last, call, ret, accretion, demo>>

NextPar == \E t \in Threads : ThreadSeed(t) \/ ThreadDraw(t)

SpecPar == InitPar /\ [][NextPar]_vars

-----------------------------------------------------------------------------
(* mainLoopDemo1 over a loaded dialogue; a step is getStartNode, the body of *)
(* the component loop for one component, or the end of the while body        *)

InitDlg ==
    /\ build = "declared"
    /\ call = NoProbe
    /\ ret = NoProbe
    /\ InitCatalog
    /\ storage = [g \in Galaxies |-> "zeroed"]
    /\ threads = NoThreads
    /\ accretion = NoAccretion
    /\ demo \in {[pc         |-> "load",
                  dlg        |-> dlg,
                  currNode   |-> [id |-> "", type |-> "", components |-> <<>>],
                  nextNodeId |-> "",
                  obj        |-> 1,
                  ran        |-> <<>>] : dlg \in Dialogues}

\* currNode = getStartNode(dlg); the error is printed and the function
\* returns
DemoStart ==
    /\ demo.pc = "load"
    /\ \E start \in {getStartNode(demo.dlg)} :
          demo' = IF start.kind = "throw" THEN [demo EXCEPT !.pc = "returned"]
                  ELSE [demo EXCEPT !.pc = "components",
                                    !.currNode = start.value]
    /\ UNCHANGED <<build, storage, galaxySeed, rng, sectors, systems, seeded,
                   calls, last, call, ret, accretion, threads>>

\* the body of the component loop for the next component of currNode; ran
\* lists the components executed since currNode was entered, each with the
\* id of its node
DemoComponent ==
    /\ demo.pc = "components"
    /\ demo.obj <= Len(demo.currNode.components)
    /\ \E left \in execComponent(demo.currNode.components[demo.obj],
                                 demo.nextNodeId) :
          demo' = [demo EXCEPT !.pc = left.pc,
                               !.currNode.components[demo.obj] = left.obj,
                               !.nextNodeId = left.nextNodeId,
                               !.obj = demo.obj + 1,
                               !.ran = Append(demo.ran,
                                             <<demo.currNode.id, demo.obj>>)]
    /\ UNCHANGED <<build, storage, galaxySeed, rng, sectors, systems, seeded,
                   calls, last, call, ret, accretion, threads>>

\* after the components: bRun is cleared at a node-exit node, and
\* currNode = getNodeById(dlg, nextNodeId) in either case; its error is
\* not caught.  The while loop ends when bRun is cleared; ran is kept then.
DemoNextNode ==
    /\ demo.pc = "components"
    /\ demo.obj > Len(demo.currNode.components)
    /\ \E next \in {getNodeById(demo.dlg, demo.nextNodeId)} :
          demo' = IF next.kind = "throw" THEN [demo EXCEPT !.pc = "terminated"]
                  ELSE IF demo.currNode.type = "node-exit"
                  THEN [demo EXCEPT !.pc = "done",
                                    !.currNode = next.value]
                  ELSE [demo EXCEPT !.currNode = next.value,
                                    !.obj = 1,
                                    !.ran = <<>>]
    /\ UNCHANGED <<build, storage, galaxySeed, rng, sectors, systems, seeded,
                   calls, last, call, ret, accretion, threads>>

NextDlg ==
    \/ DemoStart
    \/ DemoComponent
    \/ DemoNextNode

SpecDlg == InitDlg /\ [][NextDlg]_vars

\* the loop runs on: the user answers every prompt
SpecDlgFair == SpecDlg /\ WF_vars(NextDlg)

-----------------------------------------------------------------------------
(* createComposition(composition, rnd) on an empty map, one pass of its      *)
(* loop per step; the draws of a pass are those of any position of a stream  *)

\* positions of the stream before a pass: they draw CO2 or H2 in the first
\* pass, N2 or O2 in the second, He or Ne later, with a sample of 42/61 or
\* of 6/61
DrawStates == {20, 43}

InitAccretion ==
    /\ build = "declared"
    /\ call = NoProbe
    /\ ret = NoProbe
    /\ InitCatalog
    /\ storage = [g \in Galaxies |-> "zeroed"]
    /\ threads = NoThreads
    /\ demo = NoDemo
    /\ accretion \in {compositionStart(EmptyMap, rnd) : rnd \in DrawStates}

\* one pass of while (part < 1.0f)
AccretionRun ==
    /\ FLt(accretion.part, FOne)
    /\ \E rnd \in DrawStates :
          \E c \in {compositionRun([accretion EXCEPT !.rnd = rnd])} :
              accretion' = c
    /\ UNCHANGED <<build, storage, galaxySeed, rng, sectors, systems, seeded,
                   calls, last, call, ret, demo, threads>>

NextAccretion == AccretionRun

SpecAccretion == InitAccretion /\ [][NextAccretion]_vars

\* the loop runs on: weak fairness of NextAccretion, which is enabled
\* exactly while part < 1.0f
SpecAccretionFair ==
    SpecAccretion
        /\ ([]<>(~FLt(accretion.part, FOne)) \/ []<><<NextAccretion>>_vars)

-----------------------------------------------------------------------------
(* the properties of the catalog *)

\* C1: determinism.  Two fresh instances that are given the same seed by
\* setGalaxySeed first and then receive the same sequence of genSystem,
\* genStars and genPlanets calls (the seeds from getSectorSeed, getSystemSeeds
\* and getStarSeeds; no sector is stored by these) hold identical catalogs:
\* every system, with every star and planet seed and every attribute, is
\* equal in both.
C1_Determinism ==
    seeded = "first" /\ sectors = [g \in Galaxies |-> EmptyMap]
        => systems[1] = systems[2]

\* C2: cache hit.  A call of genSystem for a system seed that is already in
\* the map systems draws no sample from any random stream.
C2_CacheHit ==
    \A g \in Galaxies :
        last[g].op = "genSystem" /\ last[g].hit => last[g].draws = 0

\* C3: no deletion and no mutation after creation.  In every step, every
\* star stored under a system is still stored under it with the attributes
\* it had, and every planet stored under a star is still stored under it
\* unchanged; a call may only add stars and planets.
C3_NoDeletionNoMutation ==
    [][\A g \in Galaxies : \A s \in DOMAIN systems[g] :
          \A t \in DOMAIN systems[g][s].stars :
              /\ s \in DOMAIN systems'[g]
              /\ t \in DOMAIN systems'[g][s].stars
              /\ [systems'[g][s].stars[t] EXCEPT !.planets = EmptyMap]
                    = [systems[g][s].stars[t] EXCEPT !.planets = EmptyMap]
              /\ \A p \in DOMAIN systems[g][s].stars[t].planets :
                    /\ p \in DOMAIN systems'[g][s].stars[t].planets
                    /\ systems'[g][s].stars[t].planets[p]
                          = systems[g][s].stars[t].planets[p]]_vars

-----------------------------------------------------------------------------
(* the properties of the functions *)

\* C4: composition closure.  When createComposition returns, the volume
\* fractions stored in the composition map sum to 1.0 within 1e-4, for every
\* state of the stream; so do those of every atmosphere that exists.
C4_CompositionClosure ==
    LET closed(composition) ==
            FLe(FAbs(FSub(MapSum(composition), FOne)), Dec(1, 4))
    IN  /\ ret.fn = "createComposition" => closed(ret.composition)
        /\ ret.fn = "createAtmosphere" /\ exists(ret.atmosphere)
              => closed(ret.atmosphere.composition)

\* C5: band contiguity.  In a run of genPlanets the band of the first planet
\* starts at lower limit 0, the upper limit of every band is twice the
\* distance less the lower limit, and the lower limit used for the next
\* planet is the upper limit of the band before it.
C5_BandContiguity ==
    ret.fn = "genPlanets" =>
        \A i \in 1 .. Len(ret.bands) :
            /\ i = 1 => ret.bands[i].lower = FZero
            /\ ret.bands[i].upper
                  = FSub(FMul(FTwo, ret.bands[i].distance), ret.bands[i].lower)
            /\ i < Len(ret.bands) => ret.bands[i + 1].lower = ret.bands[i].upper

\* a star with at least three planets, the bands of which differ
C5_Witness ==
    /\ ret.fn = "genPlanets"
    /\ Len(ret.bands) >= 3
    /\ FLt(ret.bands[1].lower, ret.bands[2].lower)
    /\ FLt(ret.bands[2].lower, ret.bands[3].lower)

\* C6: type-index range.  Every generated star has typeIndex in 0 .. 23 and
\* every generated planet typeIndex in 0 .. 17, for every sample, planet mass
\* and distance.
C6_TypeIndexRange ==
    /\ ret.fn = "genStar" => ret.star.typeIndex \in 0 .. 23
    /\ ret.fn = "getRndCdfIdx" /\ call.cdf = "starTypeProbability"
          => ret.idx \in 0 .. 23
    /\ ret.fn = "getPlanetTypeIndex" => ret.typeIndex \in 0 .. 17
    /\ ret.fn = "genPlanet" => ret.planet.typeIndex \in 0 .. 17
    /\ ret.fn = "genPlanets" =>
          /\ ret.star.typeIndex \in 0 .. 23
          /\ \A p \in DOMAIN ret.planets : ret.planets[p].typeIndex \in 0 .. 17

\* a planet of the last type: beyond the outer limit, of the heaviest class
C6_Witness ==
    /\ ret.fn = "getPlanetTypeIndex"
    /\ FGt(call.starDistance, call.limits[2])
    /\ ret.typeIndex = 17

\* C7: habitable-zone distances.  After habitableZoneComplete, and so after
\* genStar, hzDistAu[0] is 0 and hzDistAu[i] >= 0 for i in 1 .. 7, for every
\* temperature and non-negative luminosity; a limit whose flux is floored
\* to zero gets the distance 0.
C7_HzDistances ==
    /\ ret.fn = "habitableZoneComplete" =>
          /\ ret.hzDistAu[0] = FZero
          /\ \A i \in 1 .. 7 :
                /\ FGe(ret.hzDistAu[i], FZero)
                /\ ret.sEff[i] = FZero => ret.hzDistAu[i] = FZero
    /\ ret.fn = "genStar" =>
          /\ ret.star.hzDistAu[0] = FZero
          /\ \A i \in 1 .. 7 : FGe(ret.star.hzDistAu[i], FZero)

\* a star with a luminosity, one limit with a floored flux and one without
C7_Witness ==
    /\ ret.fn = "habitableZoneComplete"
    /\ FGt(call.lumStar, FZero)
    /\ \E i \in 1 .. 7 : ret.sEff[i] = FZero /\ ret.hzDistAu[i] = FZero
    /\ \E i \in 1 .. 7 : FGt(ret.sEff[i], FZero) /\ FGt(ret.hzDistAu[i], FZero)

\* C8: habitable-zone flag.  A planet of genPlanet has isInHz exactly when
\* its distance is greater than hzDistAu[1] and less than hzDistAu[5] of the
\* star; a planet on a limit or outside has isInHz false.
C8_HzFlag ==
    ret.fn = "genPlanet" =>
        /\ ret.planet.isInHz
              <=> /\ FGt(ret.planet.starDistance, ret.hzDistAu[1])
                  /\ FLt(ret.planet.starDistance, ret.hzDistAu[5])
        /\ \/ ret.planet.starDistance = ret.hzDistAu[1]
           \/ ret.planet.starDistance = ret.hzDistAu[5]
           \/ FLt(ret.planet.starDistance, ret.hzDistAu[1])
           \/ FGt(ret.planet.starDistance, ret.hzDistAu[5])
              => ~ret.planet.isInHz

\* a planet on the outer limit of a star whose limits differ
C8_Witness ==
    /\ ret.fn = "genPlanet"
    /\ FLt(ret.hzDistAu[1], ret.hzDistAu[5])
    /\ ret.planet.starDistance = ret.hzDistAu[5]
    /\ ~ret.planet.isInHz

\* C9: gas giants always have an atmosphere.  For every sample, a planet of
\* type column 4 or 5 receives from createAtmosphere an atmosphere that
\* exists and whose radius is the radius of the planet.
C9_GasGiantAtmosphere ==
    ret.fn = "createAtmosphere" /\ getPeriodicTypeColumn(call.typeIndex) >= 4
        => /\ exists(ret.atmosphere)
           /\ ret.atmosphere.radius = ret.planetRadius

\* a Neptunian with a sample above one half
C9_Witness ==
    /\ ret.fn = "createAtmosphere"
    /\ getPeriodicTypeColumn(call.typeIndex) = 4
    /\ FGt(ret.atmProb, FHalf)
    /\ exists(ret.atmosphere)

\* C10: Mercurians never have an atmosphere.  For every sample in [0, 1), a
\* planet of type column 0 receives from createAtmosphere an atmosphere
\* with radius 0, one that does not exist.
C10_MercurianNoAtmosphere ==
    ret.fn = "createAtmosphere" /\ getPeriodicTypeColumn(call.typeIndex) = 0
        => /\ ~exists(ret.atmosphere)
           /\ ret.atmosphere.radius = FZero

\* C11: system seeds are unique per coordinate.  With the default
\* configuration and a fixed galaxy seed, two different pairs of a sector
\* coordinate and a system index never yield the same system seed.
C11_SystemSeedsUnique ==
    ret.fn = "getSystemSeeds" =>
        \A n, m \in 1 .. MAX_SYSTEMS :
            call.a # call.b \/ n # m => ret.a[n] # ret.b[m]

\* C12: stream freshness.  Every sample consumed while an entity is generated
\* comes from a stream seeded with the seed the entity derives from: the
\* distance that places a planet of a star is drawn from the stream seeded
\* with the seed of that star, never from a stream that was seeded for and
\* advanced by a sibling planet.
C12_StreamFreshness ==
    ret.fn = "genPlanets" =>
        \A i \in 1 .. Len(ret.bands) : ret.bands[i].stream = ret.star.seed

\* C13: concurrent generation of distinct stars.  When two threads run
\* genStar for two distinct stars of one galaxy object, interleaved at the
\* granularity of single reseed and draw steps, each star gets the attributes
\* a run of genStar alone on its seed gives it.
C13_ConcurrentStars ==
    \A t \in Threads :
        threads[t].pc = "done" =>
            threads[t].star
                = genStarRun(build, call.starSeeds[t],
                             RngSeed(call.starSeeds[t])).star

\* C14: unknown keys are rejected.  genStars called with a system seed that
\* is not a key of systems, and genPlanets called with a system seed or a
\* star seed that is not stored, leave the catalog as it was.
C14_UnknownKeysRejected ==
    [][\A g \in Galaxies :
          last'[g].op \in {"genStars", "genPlanets"} /\ ~last'[g].hit
              => systems'[g] = systems[g]]_vars

\* C15: per-system star cap.  The stars genSystem and genStars store for a
\* system are never more than MAX_STARS.
C15_StarCap ==
    ret.fn = "genSystem" => Cardinality(DOMAIN ret.system.stars) <= MAX_STARS

\* C16: overall habitability.  getPlanetHabitability returns 0 for a planet
\* that is not in the habitable zone; for a planet in the zone it returns
\* probTemp * probGrav, times the habitability of the planet's atmosphere
\* when the atmosphere exists.  probTemp is 0 outside [223 K, 323 K] and
\* 1 - |293 - T| / 70 inside; probGrav is 0 for a relative gravity outside
\* [0.2, 3.0] and 1 - |1 - g_rel| / 2 inside.
C16_OverallHabitability ==
    ret.fn = "getPlanetHabitability" =>
        /\ ret.planet.probTemp
              = (IF FGe(call.temperature, FromInt(223))
                    /\ FLe(call.temperature, FromInt(323))
                 THEN FSub(FOne, FDiv(FAbs(FSub(FromInt(293), call.temperature)),
                                      FromInt(70)))
                 ELSE FZero)
        /\ \E grel \in {IF call.body[1] = FZero \/ call.body[2] = FZero THEN FZero
                        ELSE FDiv(FDiv(FMul(G, call.body[1]),
                                       FMul(FMul(call.body[2], FromInt(1000)),
                                            FMul(call.body[2], FromInt(1000)))),
                                  gEarth)} :
              ret.planet.probGrav
                 = (IF FGe(grel, Dec(2, 1)) /\ FLe(grel, FromInt(3))
                    THEN FSub(FOne, FDiv(FAbs(FSub(FOne, grel)), FTwo))
                    ELSE FZero)
        /\ ret.value
              = (IF ~call.isInHz THEN FZero
                 ELSE IF exists(call.atmosphere)
                 THEN FMul(FMul(ret.planet.probTemp, ret.planet.probGrav),
                           atmosphereHabitability(call.atmosphere.composition,
                                                  call.atmosphere.pressure))
                 ELSE FMul(ret.planet.probTemp, ret.planet.probGrav))

\* C17: partial-pressure gate.  For a planet in the habitable zone whose
\* atmosphere exists, getPlanetHabitability returns 0 whenever the partial
\* pressure of some gas, its fraction times the surface pressure of the
\* atmosphere, exceeds ppMaxGas of the gas, and whenever the partial pressure
\* of oxygen is below 0.16 bar.
C17_PartialPressureGate ==
    /\ ret.fn = "getPlanetHabitability"
    /\ call.isInHz
    /\ exists(call.atmosphere)
    /\ \/ \E gas \in DOMAIN call.atmosphere.composition :
             FGt(FMul(call.atmosphere.composition[gas], call.atmosphere.pressure),
                 Lit(ppMaxGas[gas]))
       \/ "O2" \notin DOMAIN call.atmosphere.composition
       \/ FLt(FMul(call.atmosphere.composition["O2"], call.atmosphere.pressure),
              Dec(16, 2))
    => ret.value = FZero

\* C18: snapshot round trip.  Reading the document to_json writes for a
\* system back with from_json gives a system with the same sector, seed,
\* position and multiplicity, and the same stars: their seeds, type indices,
\* masses and planets, each planet with its seed, type index, mass and
\* temperature.
C18_SnapshotRoundTrip ==
    ret.fn = "to_json" =>
        /\ ret.back.sector = ret.system.sector
        /\ ret.back.seed = ret.system.seed
        /\ ret.back.position = ret.system.position
        /\ ret.back.multiplicity = ret.system.multiplicity
        /\ DOMAIN ret.back.stars = DOMAIN ret.system.stars
        /\ \A starSeed \in DOMAIN ret.system.stars \cap DOMAIN ret.back.stars :
              /\ ret.back.stars[starSeed].seed = ret.system.stars[starSeed].seed
              /\ ret.back.stars[starSeed].typeIndex
                    = ret.system.stars[starSeed].typeIndex
              /\ ret.back.stars[starSeed].mass = ret.system.stars[starSeed].mass
              /\ DOMAIN ret.back.stars[starSeed].planets
                    = DOMAIN ret.system.stars[starSeed].planets
              /\ \A planetSeed \in DOMAIN ret.system.stars[starSeed].planets
                                      \cap DOMAIN ret.back.stars[starSeed].planets :
                    /\ ret.back.stars[starSeed].planets[planetSeed].seed
                          = ret.system.stars[starSeed].planets[planetSeed].seed
                    /\ ret.back.stars[starSeed].planets[planetSeed].typeIndex
                          = ret.system.stars[starSeed].planets[planetSeed].typeIndex
                    /\ ret.back.stars[starSeed].planets[planetSeed].mass
                          = ret.system.stars[starSeed].planets[planetSeed].mass
                    /\ ret.back.stars[starSeed].planets[planetSeed].temperature
                          = ret.system.stars[starSeed].planets[planetSeed].temperature

\* C19: parent pointer.  After genSystems(sectorSeed) and genSystem(s) for
\* the seeds s in the sector's systemSeeds, every such system has the field
\* sector equal to sectorSeed.
C19_ParentSector ==
    \A g \in Galaxies :
        \A sectorSeed \in DOMAIN sectors[g] :
            \A n \in DOMAIN sectors[g][sectorSeed].systemSeeds :
                /\ sectors[g][sectorSeed].systemSeeds[n] \in DOMAIN systems[g]
                /\ systems[g][sectors[g][sectorSeed].systemSeeds[n]].seed
                      = sectors[g][sectorSeed].systemSeeds[n]
                => systems[g][sectors[g][sectorSeed].systemSeeds[n]].sector
                      = sectorSeed

C21_PlanetCount ==
    ret.fn = "genPlanets" =>
        /\ ret.star.planetsCount \in 0 .. 8
        /\ Cardinality(DOMAIN ret.planets) = ret.star.planetsCount
        /\ DOMAIN ret.planets
              = {getPlanetSeed(ret.star.seed, n) :
                    n \in 0 .. ret.star.planetsCount - 1}
        /\ \A n, m \in 0 .. ret.star.planetsCount - 1 :
              n # m => getPlanetSeed(ret.star.seed, n)
                          # getPlanetSeed(ret.star.seed, m)
        /\ \A planetSeed \in DOMAIN ret.planets :
              ret.planets[planetSeed].seed = planetSeed
        /\ ret.star.planetsCount = 0 => ret.planets = EmptyMap

\* a star of seven planets
C21_Witness ==
    /\ ret.fn = "genPlanets"
    /\ ret.star.planetsCount = 7
    /\ Cardinality(DOMAIN ret.planets) = 7

\* C22: temperature subclass digit.  For every star genStar produces,
\* genStarTemperatureSequence returns a single digit 0 .. 9 for the type and
\* the temperature of the star.
C22_SubclassDigit ==
    ret.fn = "genStar" =>
        ret.star.temperatureSequence
            \in {"0", "1", "2", "3", "4", "5", "6", "7", "8", "9"}

\* C23: star mass and radius stay in the tabulated range of the type.  For
\* every star genStar produces, minMass <= mass <= maxMass and
\* minRadius <= radius <= maxRadius hold for the entries of its type index.
C23_StarRanges ==
    ret.fn = "genStar" =>
        /\ FLe(Lit(starTypeRange.minMass[ret.star.typeIndex]), ret.star.mass)
        /\ FLe(ret.star.mass, Lit(starTypeRange.maxMass[ret.star.typeIndex]))
        /\ FLe(Lit(starTypeRange.minRadius[ret.star.typeIndex]), ret.star.radius)
        /\ FLe(ret.star.radius, Lit(starTypeRange.maxRadius[ret.star.typeIndex]))

\* C24: planet placement.  In genPlanets, while the running lower limit is
\* inside the frost limit the distance of the next planet lies between that
\* limit and the frost limit; otherwise it is at least 1.5 times the
\* distance of the previous planet.
C24_Placement ==
    ret.fn = "genPlanets" =>
        \A i \in 1 .. Len(ret.bands) :
            IF FLt(ret.bands[i].lower, ret.star.frostLimitAu)
            THEN /\ FLe(ret.bands[i].lower, ret.bands[i].distance)
                 /\ FLe(ret.bands[i].distance, ret.star.frostLimitAu)
            ELSE FGe(ret.bands[i].distance,
                     FMul(Dec(15, 1),
                          IF i = 1 THEN FZero ELSE ret.bands[i - 1].distance))

\* C25: composition tiers.  In createComposition the first draw picks one of
\* CO2 and H2, the second one of N2 and O2, and every later draw picks from
\* the whole tail He, Ar, CH4, Ne, Kr, Xe of the table: over the samples a
\* draw can receive, the gases the draw of a run picks are the gases of its
\* tier, so that each of the ten gases can occur.
C25_CompositionTiers ==
    ret.fn = "createComposition" =>
        \A run \in 0 .. ret.run - 1 :
            {compositionRun([compositionStart(EmptyMap, rnd)
                                EXCEPT !.run = run]).comp : rnd \in RngStates}
                = (IF run = 0 THEN {"CO2", "H2"}
                   ELSE IF run = 1 THEN {"N2", "O2"}
                   ELSE {"He", "Ar", "CH4", "Ne", "Kr", "Xe"})

\* C26: dialogue selection error.  getNextNodeIdFromSequence(obj, seq)
\* throws a string when the component has no item of sequence number seq or
\* the item of that number carries no next node id, and it never returns an
\* empty node id.
C26_SelectionError ==
    ret.fn = "getNextNodeIdFromSequence" =>
        /\ ( \/ "items" \notin DOMAIN call.obj
             \/ \A i \in 1 .. Len(call.obj.items) :
                    \/ "sequence" \notin DOMAIN call.obj.items[i]
                    \/ call.obj.items[i].sequence # call.seq
                    \/ "nextNodeId" \notin DOMAIN call.obj.items[i] )
               => ret.outcome = Thrown("string")
        /\ ret.outcome.kind = "return" => ret.outcome.value # ""

\* C27: the dialogue walk ends at the exit node.  For a dialogue that has a
\* node-init node and in which every next-node id of a component or item
\* names a node, once mainLoopDemo1 enters a node of type node-exit it
\* executes the components of that node once, in order, and then stops
\* without an error.
C27_WalkEnds ==
    [](( /\ demo.pc = "components"
         /\ wellFormed(demo.dlg)
         /\ demo.currNode.type = "node-exit"
         /\ demo.obj = 1 )
       => <>( /\ demo.pc = "done"
              /\ \E n \in 1 .. Len(demo.dlg.nodes) :
                    /\ demo.dlg.nodes[n].type = "node-exit"
                    /\ demo.ran = [i \in 1 .. Len(demo.dlg.nodes[n].components)
                                      |-> <<demo.dlg.nodes[n].id, i>>] ))

\* C28: every planet lies strictly inside its own accretion band.  For a
\* star with a positive frost limit, each planet genPlanets generates has
\* lowerLimit < distance < upperLimit, so the width of its band and its mass
\* are positive, and the distances increase strictly with the planet index.
C28_InsideBand ==
    (ret.fn = "genPlanets" /\ FGt(ret.star.frostLimitAu, FZero)) =>
        \A i \in 1 .. Len(ret.bands) :
            /\ FLt(ret.bands[i].lower, ret.bands[i].distance)
            /\ FLt(ret.bands[i].distance, ret.bands[i].upper)
            /\ FGt(FSub(ret.bands[i].upper, ret.bands[i].lower), FZero)
            /\ FGt(ret.planets[ret.bands[i].seed].mass, FZero)
            /\ i > 1 => FGt(ret.bands[i].distance, ret.bands[i - 1].distance)

\* C29: the mass class is monotone in the mass.  Of two planets in the same
\* temperature zone the one of the larger mass gets a type column
\* (typeIndex % 6) that is at least the column of the other; a planet of
\* more than 50 Earth masses is in column 5 (Jovian); a mass that is exactly
\* the limit between two classes is in one of these two classes.
C29_MassMonotone ==
    (ret.fn = "getPlanetTypeIndex" /\ ~IsNaN(call.mass)) =>
        /\ \A mass \in EarthMasses :
               (~IsNaN(mass) /\ FGe(FMul(mass, Mearth), FMul(call.mass, Mearth)))
                   => getPlanetTypeIndex(
                          [starDistance |-> call.starDistance,
                           mass         |-> FMul(mass, Mearth)],
                          call.limits[1], call.limits[2]) % 6
                          >= ret.typeIndex % 6
        /\ FGt(FDiv(FMul(call.mass, Mearth), Mearth), FromInt(50))
               => ret.typeIndex % 6 = 5
        /\ \A i \in 1 .. 5 :
               FEq(FDiv(FMul(call.mass, Mearth), Mearth),
                   Lit(planetTypeRange.Mearth_min[i]))
                   => ret.typeIndex % 6 \in {i - 1, i}

\* C30: createComposition terminates.  For every sequence of draws the loop
\* ends after finitely many passes: a pass starts only while the total is
\* below 1.0, it adds a share greater than 0 to the total, the total does
\* not exceed 1.0, and eventually the total is 1.0 and the loop has ended.
C30_Terminates ==
    /\ [][ /\ FLt(accretion.part, FOne)
           /\ FGt(accretion'.partToAdd, FZero)
           /\ FGt(accretion'.part, accretion.part)
           /\ FLe(accretion'.part, FOne) ]_vars
    /\ <>(accretion.run > 0 /\ FEq(accretion.part, FOne))

\* the loop has ended after more than a thousand passes, the later ones
\* adding Ne at 0.0001
C30_Witness ==
    /\ accretion.run > 1000
    /\ FEq(accretion.part, FOne)
    /\ "Ne" \in DOMAIN accretion.composition

==========================================================================
